---- MODULE Spec2Model ----
(***************************************************************************)
(* poggers: the prompt scanner (processPrompt), the annotation store       *)
(* (getAnnotation / SetAnnotation) and the batch orchestrator              *)
(* (ProcessBatch), as state machines.                                      *)
(*                                                                         *)
(* A Go string is a sequence of one-character strings; prompt[i] of the    *)
(* source (0-based) is At(prompt, i).  A read of prompt[i] with            *)
(* i >= len(prompt) is Go's index-out-of-range panic.                      *)
(***************************************************************************)
EXTENDS Integers, Sequences, FiniteSets, TLC

VARIABLES
    sc,           \* the scanner of a stand-alone Process call (ScanSpec)
    doc,          \* ScanSpec: what the text given to Process was built from
    annotations,  \* pB.annotations: identifier -> value (a Go map)
    mutex,        \* pB.annotationsMutexn: its writer and its readers
    options,      \* the revision of the builder and the hooks it was given
    batch,        \* ProcessBatch: the caller's [][]Prompt
    tier,         \* ProcessBatch: index (from 1) of the tier the loop is at
    mpc,          \* ProcessBatch: where the calling goroutine is
    wg,           \* ProcessBatch: the tier's sync.WaitGroup counter
    errChan,      \* ProcessBatch: the tier's buffered error channel
    ret,          \* ProcessBatch: the error returned
    wk,           \* ProcessBatch: the worker goroutines, by <<tier, index>>
    calls         \* StoreSpec: the calls a single caller made to the store

batchVars == <<mutex, options, batch, tier, mpc, wg, errChan, ret, wk>>

vars == <<sc, doc, annotations, batchVars, calls>>

\* ---------------------------------------------------------------- bounds
MaxBody == 3       \* characters of a free-form section body
MaxLines == 2      \* continuation lines of a section of a plain document
MaxSections == 2   \* sections of a plain document
MaxMixed == 3      \* lines of a document of arbitrary lines

\* ---------------------------------------------------------------- strings
NL == "\n"
TAB == "\t"
SP == " "
BSL == "\\"
AT == "@"
QUOTE == "\""
SLASH == "/"
COLON == ":"

Str0 == <<>>

IdentChars ==
    { "a","b","c","d","e","f","g","h","i","j","k","l","m",
      "n","o","p","q","r","s","t","u","v","w","x","y","z",
      "A","B","C","D","E","F","G","H","I","J","K","L","M",
      "N","O","P","Q","R","S","T","U","V","W","X","Y","Z",
      "0","1","2","3","4","5","6","7","8","9","_","-" }

OpenBrackets == {"{", "["}
CloseBrackets == {"}", "]"}
Tabulation == {" ", "\t"}
Spaces == {" ", "\n", "\t"}

At(p, i) == p[i + 1]

Slice(p, from, to) == SubSeq(p, from + 1, to)

RECURSIVE Concat(_)
Concat(ss) == IF ss = <<>> THEN <<>> ELSE Head(ss) \o Concat(Tail(ss))

\* The first j >= i with j = Len(p) or p[j] not in set: where a loop
\* `for prompt[i] in set { next(false) }` stops, or reads past the end.
RECURSIVE SkipWhile(_, _, _)
SkipWhile(p, i, set) ==
    IF i >= Len(p) THEN i
    ELSE IF At(p, i) \in set THEN SkipWhile(p, i + 1, set) ELSE i

\* ---------------------------------------------------------------- store
\* annotation := pB.annotations[id]: the zero value for a missing key
getValue(store, id) == IF id \in DOMAIN store THEN store[id] ELSE Str0

\* pB.annotations[id] = value
setValue(store, id, value) ==
    [k \in DOMAIN store \cup {id} |-> IF k = id THEN value ELSE store[k]]

\* delete, leaving the entry in the map.
deleteValueKept(store, id) == store

\* delete(pB.annotations, id)
deleteValue(store, id) == [k \in DOMAIN store \ {id} |-> store[k]]

Unlocked == [writer |-> <<>>, readers |-> {}]

\* The builders of the two revisions of the orchestrator: the one whose
\* Process runs the OnBeforeProcess / OnAfterProcess hooks, with and without
\* hooks, and the one whose ProcessBatch takes a callback.
Part001Hooks ==
    [rev |-> "hooks", onBeforeProcess |-> TRUE, onAfterProcess |-> TRUE]

Part001NoHooks ==
    [rev |-> "hooks", onBeforeProcess |-> FALSE, onAfterProcess |-> FALSE]

Part003Callback ==
    [rev |-> "callback", onBeforeProcess |-> FALSE, onAfterProcess |-> FALSE]

OutputSchemaId == <<"O","u","t","p","u","t","S","c","h","e","m","a">>
JSONOutputId == <<"J","S","O","N","O","u","t","p","u","t">>
LockedInputId == <<"L","o","c","k","e","d","I","n","p","u","t">>

\* The texts of the built-in annotations (their wording is free).
OutputSchema == <<"O","u","t","p","u","t",COLON>>
JSONOutput == <<"J","S","O","N",".">>
LockedInput == <<"L","o","c","k","e","d",".">>

\* The defaults written after the caller's annotations.
NewPromptBuilderDefaultsLast(callerAnnotations) ==
    LET internalAnnotations ==
            (OutputSchemaId :> OutputSchema) @@ (JSONOutputId :> JSONOutput)
            @@ (LockedInputId :> LockedInput)
    IN  internalAnnotations @@ callerAnnotations

\* NewPromptBuilder: the defaults, overridden by the caller's annotations.
NewPromptBuilder(callerAnnotations) ==
    LET internalAnnotations ==
            (OutputSchemaId :> OutputSchema) @@ (JSONOutputId :> JSONOutput)
            @@ (LockedInputId :> LockedInput)
    IN  callerAnnotations @@ internalAnnotations

\* ---------------------------------------------------------------- scanner
\* The locals of processPrompt.  mode is the loop the cursor is in: the main
\* loop, the string loop or the comment loop; "done" after the return.
NewScan(text) ==
    [ prompt |-> <<NL>> \o text \o <<NL>>,
      i |-> 0,
      result |-> Str0,
      messages |-> <<>>,
      stack |-> 0,
      label |-> Str0,
      isTabulated |-> FALSE,
      mode |-> "main",
      err |-> "nil" ]

Message(role, content) == [Role |-> role, Content |-> content]

ScanFail(s, e) == [s EXCEPT !.mode = "done", !.err = e, !.messages = <<>>]

ScanPanic(s) == ScanFail(s, "panic")

\* next(true), dropping a space or a tab instead of writing it.
nextDropsBlanks(s) ==
    IF s.i >= Len(s.prompt) THEN ScanPanic(s)
    ELSE IF At(s.prompt, s.i) \in Tabulation THEN [s EXCEPT !.i = @ + 1]
    ELSE [s EXCEPT !.result = Append(@, At(s.prompt, s.i)), !.i = @ + 1]

\* next(write)
nextWrite(s) ==
    IF s.i >= Len(s.prompt) THEN ScanPanic(s)
    ELSE [s EXCEPT !.result = Append(@, At(s.prompt, s.i)), !.i = @ + 1]

nextSkip(s) == [s EXCEPT !.i = @ + 1]

IsTabulation(p, i) ==
    \/ At(p, i) = TAB
    \/ i + 4 < Len(p) /\ Slice(p, i, i + 4) = <<SP, SP, SP, SP>>

\* NewLine, leaving the indentation of a continuation line in the body.
NewLineKeepsIndent(s) ==
    LET p == s.prompt
        i1 == s.i + 1
    IN  IF i1 = Len(p) THEN [s EXCEPT !.isTabulated = FALSE, !.i = i1]
        ELSE IF IsTabulation(p, i1)
        THEN IF s.label = Str0 THEN ScanFail(s, "tabulated text without a label")
             ELSE [s EXCEPT !.isTabulated = TRUE, !.i = i1]
        ELSE [s EXCEPT !.isTabulated = FALSE, !.i = i1]

\* NewLine, with no check that a label is open.
NewLineNoLabelCheck(s) ==
    LET p == s.prompt
        i1 == s.i + 1
    IN  IF i1 = Len(p) THEN [s EXCEPT !.isTabulated = FALSE, !.i = i1]
        ELSE IF IsTabulation(p, i1)
        THEN LET j == SkipWhile(p, i1, Tabulation)
             IN  IF j >= Len(p) THEN ScanPanic(s)
                 ELSE [s EXCEPT !.isTabulated = TRUE, !.i = j]
        ELSE [s EXCEPT !.isTabulated = FALSE, !.i = i1]

NewLine(s) ==
    LET p == s.prompt
        i1 == s.i + 1
    IN  IF i1 = Len(p) THEN [s EXCEPT !.isTabulated = FALSE, !.i = i1]
        ELSE IF IsTabulation(p, i1)
        THEN IF s.label = Str0 THEN ScanFail(s, "tabulated text without a label")
             ELSE LET j == SkipWhile(p, i1, Tabulation)
                  IN  IF j >= Len(p) THEN ScanPanic(s)
                      ELSE [s EXCEPT !.isTabulated = TRUE, !.i = j]
        ELSE [s EXCEPT !.isTabulated = FALSE, !.i = i1]

Flush(s) ==
    IF s.label # Str0
    THEN [s EXCEPT !.messages = Append(@, Message(s.label, s.result)),
                   !.result = Str0, !.label = Str0]
    ELSE s

\* Labels, taking an identifier for a label whether a colon follows or not.
LabelsNoColonCheck(s) ==
    LET f == Flush(s)
        p == s.prompt
        start == s.i
        j == SkipWhile(p, start, IdentChars)
    IN  IF j >= Len(p) THEN ScanPanic(s)
        ELSE IF j = start THEN ScanFail(s, "expected a label, found nothing")
        ELSE LET k == SkipWhile(p, j + 1, {SP})
             IN  IF k >= Len(p) THEN ScanPanic(s)
                 ELSE [f EXCEPT !.label = Slice(p, start, j), !.i = k]

Labels(s) ==
    LET f == Flush(s)
        p == s.prompt
        start == s.i
        j == SkipWhile(p, start, IdentChars)
    IN  IF j >= Len(p) THEN ScanPanic(s)
        ELSE IF At(p, j) # COLON THEN ScanFail(s, "expected a label")
        ELSE IF j = start THEN ScanFail(s, "expected a label, found nothing")
        ELSE LET k == SkipWhile(p, j + 1, {SP})
             IN  IF k >= Len(p) THEN ScanPanic(s)
                 ELSE [f EXCEPT !.label = Slice(p, start, j), !.i = k]

\* Escape, copying the backslash and leaving the next character to the scan.
EscapeKeepsBackslash(s) == nextWrite(s)

Escape(s) == nextWrite(nextSkip(s))

\* The end of the identifier, a `-` taken to end it.
AnnotationEndAtDash(s) == SkipWhile(s.prompt, s.i + 1, IdentChars \ {"-"})

AnnotationEnd(s) == SkipWhile(s.prompt, s.i + 1, IdentChars)

AnnotationId(s) == Slice(s.prompt, s.i + 1, AnnotationEnd(s))

\* Annotation, with a space put before a value that does not follow one.
AnnotationSpaced(s, value) ==
    IF AnnotationEnd(s) >= Len(s.prompt) THEN ScanPanic(s)
    ELSE IF s.result # Str0 /\ s.result[Len(s.result)] # SP
    THEN [s EXCEPT !.result = @ \o <<SP>> \o value, !.i = AnnotationEnd(s)]
    ELSE [s EXCEPT !.result = @ \o value, !.i = AnnotationEnd(s)]

\* Annotation, the brackets of the value counted into the depth.
AnnotationCountsBrackets(s, value) ==
    IF AnnotationEnd(s) >= Len(s.prompt) THEN ScanPanic(s)
    ELSE [s EXCEPT !.result = @ \o value,
                   !.i = AnnotationEnd(s),
                   !.stack = @ + Cardinality({k \in 1..Len(value) : value[k] \in OpenBrackets})
                               - Cardinality({k \in 1..Len(value) : value[k] \in CloseBrackets})]

\* value is what getAnnotation returned for AnnotationId(s)
Annotation(s, value) ==
    IF AnnotationEnd(s) >= Len(s.prompt) THEN ScanPanic(s)
    ELSE [s EXCEPT !.result = @ \o value, !.i = AnnotationEnd(s)]

\* Brackets, with a closing bracket that has no open one refused.
BracketsRejectUnbalanced(s) ==
    IF At(s.prompt, s.i) \in OpenBrackets
    THEN nextWrite([s EXCEPT !.stack = @ + 1])
    ELSE IF s.stack <= 0 THEN ScanFail(s, "unbalanced bracket")
    ELSE nextWrite([s EXCEPT !.stack = @ - 1])

Brackets(s) ==
    IF At(s.prompt, s.i) \in OpenBrackets
    THEN nextWrite([s EXCEPT !.stack = @ + 1])
    ELSE nextWrite([s EXCEPT !.stack = @ - 1])

IsComment(s) ==
    /\ At(s.prompt, s.i) = SLASH
    /\ s.i + 1 < Len(s.prompt)
    /\ At(s.prompt, s.i + 1) = SLASH

StringOpen(s) == [nextWrite(s) EXCEPT !.mode = "string"]

StringClose(s) == [nextWrite(s) EXCEPT !.mode = "main"]

\* CommentOpen, stepping over the two slashes without copying them.
CommentOpenDropped(s) == [nextSkip(nextSkip(s)) EXCEPT !.mode = "comment"]

CommentOpen(s) == [nextWrite(nextWrite(s)) EXCEPT !.mode = "comment"]

\* CommentClose, dropping the newline that ends the comment.
CommentCloseSkip(s) == [nextSkip(s) EXCEPT !.mode = "main"]

CommentClose(s) == [nextWrite(s) EXCEPT !.mode = "main"]

\* SkipSpaces, leaving one space for the run.
SkipSpacesKeepsOne(s) ==
    LET j == SkipWhile(s.prompt, s.i, Spaces)
    IN  IF j >= Len(s.prompt) THEN ScanPanic(s)
        ELSE [s EXCEPT !.i = j, !.result = Append(@, SP)]

\* SkipSpaces, squeezing a run of two or more to one space.
SkipSpacesSqueezes(s) ==
    LET j == SkipWhile(s.prompt, s.i, Spaces)
    IN  IF j >= Len(s.prompt) THEN ScanPanic(s)
        ELSE IF j > s.i + 1 THEN [s EXCEPT !.i = j, !.result = Append(@, SP)]
        ELSE [s EXCEPT !.i = j]

SkipSpaces(s) ==
    LET j == SkipWhile(s.prompt, s.i, Spaces)
    IN  IF j >= Len(s.prompt) THEN ScanPanic(s) ELSE [s EXCEPT !.i = j]

\* The return, without the message of the section that is open.
LastLabelDropped(s) == [s EXCEPT !.mode = "done"]

LastLabel(s) ==
    IF s.label # Str0
    THEN [s EXCEPT !.messages = Append(@, Message(s.label, s.result)), !.mode = "done"]
    ELSE [s EXCEPT !.mode = "done"]

\* StringBranch, treating whitespace in a string as it is treated outside.
StringBranchMinifies(c) ==
    IF c = QUOTE THEN "string close"
    ELSE IF c = BSL THEN "escape"
    ELSE IF c = AT THEN "annotation"
    ELSE IF c \in Spaces THEN "spaces"
    ELSE "other"

\* Which statement of the string loop the cursor is at, c being prompt[i].
StringBranch(c) ==
    IF c = QUOTE THEN "string close"
    ELSE IF c = BSL THEN "escape"
    ELSE IF c = AT THEN "annotation"
    ELSE "other"

\* Which statement of the loop body the cursor is at.
Branch(s) ==
    IF s.mode = "done" THEN "done"
    ELSE IF s.mode = "main" /\ s.i >= Len(s.prompt) THEN "return"
    ELSE IF s.i >= Len(s.prompt) THEN "panic"
    ELSE LET c == At(s.prompt, s.i) IN
    IF s.mode = "string"
    THEN StringBranch(c)
    ELSE IF s.mode = "comment"
    THEN IF c = NL THEN "comment close"
         ELSE IF c = BSL THEN "escape"
         ELSE IF c = AT THEN "annotation"
         ELSE "other"
    ELSE IF c = NL THEN "new line"
    ELSE IF ~s.isTabulated THEN "labels"
    ELSE IF c = BSL THEN "escape"
    ELSE IF c = AT THEN "annotation"
    ELSE IF c \in OpenBrackets \cup CloseBrackets THEN "brackets"
    ELSE IF s.stack > 0 /\ c = QUOTE THEN "string open"
    ELSE IF s.stack > 0 /\ IsComment(s) THEN "comment open"
    ELSE IF s.stack > 0 /\ c \in Spaces THEN "spaces"
    ELSE "other"

\* One iteration of the loop the cursor is in, for every branch but the
\* annotation one, which reads the store.
processPromptStep(s) ==
    CASE Branch(s) = "return" -> LastLabel(s)
      [] Branch(s) = "panic" -> ScanPanic(s)
      [] Branch(s) = "string close" -> StringClose(s)
      [] Branch(s) = "comment close" -> CommentClose(s)
      [] Branch(s) = "new line" -> NewLine(s)
      [] Branch(s) = "labels" -> Labels(s)
      [] Branch(s) = "escape" -> Escape(s)
      [] Branch(s) = "brackets" -> Brackets(s)
      [] Branch(s) = "string open" -> StringOpen(s)
      [] Branch(s) = "comment open" -> CommentOpen(s)
      [] Branch(s) = "spaces" -> SkipSpaces(s)
      [] Branch(s) = "other" -> nextWrite(s)

\* The whole scan against a store that does not change meanwhile.
RECURSIVE processPrompt(_, _)
processPrompt(s, store) ==
    IF Branch(s) = "done" THEN s
    ELSE IF Branch(s) = "annotation"
    THEN processPrompt(Annotation(s, getValue(store, AnnotationId(s))), store)
    ELSE processPrompt(processPromptStep(s), store)

\* ---------------------------------------------------------------- inputs
\* Plain documents: sections of continuation lines, no annotation, no
\* bracket, no backslash.  A line is its indentation and its text.
PlainLines ==
    { [indent |-> <<TAB>>, text |-> <<"b">>],
      [indent |-> <<SP, SP, SP, SP>>, text |-> <<"c", SP, QUOTE, SLASH, "d">>] }

SeqsUpTo(S, n) == UNION { [1..k -> S] : k \in 0..n }

PlainSections == SeqsUpTo(PlainLines, MaxLines)

LabelOf(k) == IF k % 2 = 1 THEN <<"s">> ELSE <<"u", "_", "1">>

RenderLine(l) == l.indent \o l.text \o <<NL>>

RECURSIVE RenderLines(_)
RenderLines(ls) ==
    IF ls = <<>> THEN <<>> ELSE RenderLine(Head(ls)) \o RenderLines(Tail(ls))

RECURSIVE RenderSections(_, _)
RenderSections(secs, k) ==
    IF k > Len(secs) THEN <<>>
    ELSE LabelOf(k) \o <<COLON, NL>> \o RenderLines(secs[k]) \o RenderSections(secs, k + 1)

\* Free-form bodies: one section whose single continuation line is any
\* sequence of the characters the scanner treats specially.
BodyChars == {"b", SP, NL, BSL, AT, "{", "}", QUOTE, SLASH}

\* A literal whose string holds spaces, a tab and newlines.
StringBody ==
    <<"{", SP, QUOTE, "a", SP, NL, TAB, SP, "b", NL, "c", QUOTE, NL, TAB, "}">>

\* A literal with a comment, followed by text outside it.
OutsideBody ==
    <<"{", SP, SP, "a", NL, TAB, SP, SLASH, SLASH, SP, "c", SP, NL, SP, SP, SP, SP, "}", SP, "b", SP, TAB, "c">>

\* A literal with two slashes that whitespace keeps apart.
SlashesBody == <<"{", SLASH, SP, SLASH, "}">>

\* Longer bodies, one per construct: escapes in a string, in a comment and
\* outside a literal; annotations in a string and in a comment.
\* A section that leaves a bracket open, or closes one it did not open,
\* before a second section.
OpenThenSection == <<"{", NL, "u", COLON, NL, TAB, "b", SP, "b">>

CloseThenSection == <<"}", NL, "u", COLON, NL, TAB, "{", SP, "b", SP, "}">>

\* A line of a literal that ends in a space, before a line with no indentation.
TrailingSpaceBody == <<"{", SP, NL, "u", COLON, NL, TAB, "b">>

LongBodies ==
    { <<"{", QUOTE, "a", BSL, QUOTE, "b", QUOTE, SP, BSL, AT, "b", SP, BSL, "{", SP, "}", SP, "c">>,
      <<"{", SP, SLASH, SLASH, SP, BSL, QUOTE, BSL, "}", AT, "b", NL, TAB, "}", SP, BSL, "]", SP, "c">>,
      <<"[", QUOTE, SP, AT, "b", "-", "1", ".", BSL, "[", SP, QUOTE, "]", SP, AT, "N", "a", "m", "e", SP, AT>>,
      StringBody,
      OutsideBody,
      SlashesBody,
      OpenThenSection,
      CloseThenSection,
      TrailingSpaceBody }

Bodies == SeqsUpTo(BodyChars, MaxBody) \cup LongBodies

RenderBody(body) == <<"s", COLON, NL, TAB>> \o body

\* The example of the specification, as the text of a file.
ExampleText ==
    <<"s","y","s","t","e","m",COLON,NL>>
    \o <<SP,SP,SP,SP,"S","a","y",SP,"h","e","l","l","o",SP,"t","o",SP,AT,"N","a","m","e",".",NL>>
    \o <<SP,SP,SP,SP,"[",NL>>
    \o <<SP,SP,SP,SP,SP,SP,SP,SP,"{",QUOTE,"g","r","e","e","t","i","n","g",QUOTE,COLON,SP,
          QUOTE,"h","i",QUOTE,",",SP,QUOTE,"n","o","t","e",QUOTE,COLON,SP,
          SLASH,SLASH,SP,"c","o","m","m","e","n","t",NL>>
    \o <<SP,SP,SP,SP,SP,SP,SP,SP,SP,SP,SP,SP,QUOTE,"o","k",QUOTE,"}",NL>>
    \o <<SP,SP,SP,SP,"]",NL>>

\* Arbitrary lines: a label, continuation lines (a tab, four spaces), an
\* empty line, and lines that are neither: a bare identifier, a colon with
\* no identifier, a line indented by one space, an assignment.
LabelLine == <<"s", COLON>>

ContinuationLines == { <<TAB, "b">>, <<SP, SP, SP, SP, "c">> }

OtherLines == { <<"b">>, <<COLON, "x">>, <<SP, "b", COLON>>, <<"a", SP, "=", "b">> }

MixedLines == {LabelLine, Str0} \cup ContinuationLines \cup OtherLines

RECURSIVE RenderMixed(_)
RenderMixed(ls) ==
    IF ls = <<>> THEN <<>> ELSE Head(ls) \o <<NL>> \o RenderMixed(Tail(ls))

Documents ==
    { [kind |-> "plain", sections |-> secs, body |-> Str0, lines |-> <<>>] :
        secs \in SeqsUpTo(PlainSections, MaxSections) }
    \cup { [kind |-> "body", sections |-> <<>>, body |-> b, lines |-> <<>>] : b \in Bodies }
    \cup { [kind |-> "example", sections |-> <<>>, body |-> Str0, lines |-> <<>>] }
    \cup { [kind |-> "mixed", sections |-> <<>>, body |-> Str0, lines |-> ls] :
              ls \in SeqsUpTo(MixedLines, MaxMixed) }

TextOf(d) ==
    CASE d.kind = "plain" -> RenderSections(d.sections, 1)
      [] d.kind = "body" -> RenderBody(d.body)
      [] d.kind = "example" -> ExampleText
      [] d.kind = "mixed" -> RenderMixed(d.lines)

Bunny == <<"B","u","n","n","y">>

NilError == [from |-> <<>>, chain |-> <<>>]

Stores ==
    { NewPromptBuilder(<<"N","a","m","e">> :> Bunny),
      NewPromptBuilder((<<"N","a","m","e">> :> Bunny) @@ (<<"b">> :> <<"{", SP, QUOTE, AT, "b">>)) }

\* ---------------------------------------------------------------- ScanSpec
\* A stand-alone compilation of one document: one action per branch of the
\* loop of processPrompt.
ScanInit ==
    /\ doc \in Documents
    /\ annotations \in Stores
    /\ sc = NewScan(TextOf(doc))
    /\ mutex = Unlocked
    /\ options = Part001NoHooks
    /\ batch = <<>>
    /\ tier = 1
    /\ mpc = "none"
    /\ wg = 0
    /\ errChan = <<>>
    /\ ret = NilError
    /\ wk = <<>>
    /\ calls = <<>>

ScanNewLine ==
    /\ Branch(sc) = "new line"
    /\ sc' = NewLine(sc)
    /\ UNCHANGED <<annotations, doc, batchVars, calls>>

ScanLabels ==
    /\ Branch(sc) = "labels"
    /\ sc' = Labels(sc)
    /\ UNCHANGED <<annotations, doc, batchVars, calls>>

ScanEscape ==
    /\ Branch(sc) = "escape"
    /\ sc' = Escape(sc)
    /\ UNCHANGED <<annotations, doc, batchVars, calls>>

ScanBrackets ==
    /\ Branch(sc) = "brackets"
    /\ sc' = Brackets(sc)
    /\ UNCHANGED <<annotations, doc, batchVars, calls>>

ScanStringOpen ==
    /\ Branch(sc) = "string open"
    /\ sc' = StringOpen(sc)
    /\ UNCHANGED <<annotations, doc, batchVars, calls>>

ScanStringClose ==
    /\ Branch(sc) = "string close"
    /\ sc' = StringClose(sc)
    /\ UNCHANGED <<annotations, doc, batchVars, calls>>

ScanCommentOpen ==
    /\ Branch(sc) = "comment open"
    /\ sc' = CommentOpen(sc)
    /\ UNCHANGED <<annotations, doc, batchVars, calls>>

ScanCommentClose ==
    /\ Branch(sc) = "comment close"
    /\ sc' = CommentClose(sc)
    /\ UNCHANGED <<annotations, doc, batchVars, calls>>

ScanSpaces ==
    /\ Branch(sc) = "spaces"
    /\ sc' = SkipSpaces(sc)
    /\ UNCHANGED <<annotations, doc, batchVars, calls>>

ScanOther ==
    /\ Branch(sc) = "other"
    /\ sc' = nextWrite(sc)
    /\ UNCHANGED <<annotations, doc, batchVars, calls>>

ScanReturn ==
    /\ Branch(sc) = "return"
    /\ sc' = LastLabel(sc)
    /\ UNCHANGED <<annotations, doc, batchVars, calls>>

ScanIndexPanic ==
    /\ Branch(sc) = "panic"
    /\ sc' = ScanPanic(sc)
    /\ UNCHANGED <<annotations, doc, batchVars, calls>>

ScanAnnotation ==
    /\ Branch(sc) = "annotation"
    /\ sc' = Annotation(sc, getValue(annotations, AnnotationId(sc)))
    /\ UNCHANGED <<annotations, doc, batchVars, calls>>

ScanNext ==
    \/ ScanNewLine
    \/ ScanLabels
    \/ ScanEscape
    \/ ScanAnnotation
    \/ ScanBrackets
    \/ ScanStringOpen
    \/ ScanStringClose
    \/ ScanCommentOpen
    \/ ScanCommentClose
    \/ ScanSpaces
    \/ ScanOther
    \/ ScanReturn
    \/ ScanIndexPanic

ScanSpec == ScanInit /\ [][ScanNext]_vars

\* ---------------------------------------------------------------- claims on ScanSpec
Done == sc.mode = "done"

RECURSIVE Join(_, _)
Join(texts, sep) ==
    IF texts = <<>> THEN <<>>
    ELSE IF Len(texts) = 1 THEN Head(texts)
    ELSE Head(texts) \o sep \o Join(Tail(texts), sep)

\* The (label, body) pairs of a plain document, its lines joined by sep.
SplitAtLabels(d, sep) ==
    [ k \in 1..Len(d.sections) |->
        Message(LabelOf(k),
                Join([n \in 1..Len(d.sections[k]) |-> d.sections[k][n].text], sep)) ]

ExampleClaimed ==
    <<"S","a","y",SP,"h","e","l","l","o",SP,"t","o",SP,"B","u","n","n","y",".",NL>>
    \o <<"{",QUOTE,"g","r","e","e","t","i","n","g",QUOTE,COLON,QUOTE,"h","i",QUOTE,",">>
    \o <<QUOTE,"n","o","t","e",QUOTE,COLON,SP,SLASH,SLASH,SP,"c","o","m","m","e","n","t",NL>>
    \o <<QUOTE,"o","k",QUOTE,"}">>

ExampleCompiled ==
    <<"S","a","y",SP,"h","e","l","l","o",SP,"t","o",SP,"B","u","n","n","y",".">>
    \o <<"[","{",QUOTE,"g","r","e","e","t","i","n","g",QUOTE,COLON,QUOTE,"h","i",QUOTE,",">>
    \o <<QUOTE,"n","o","t","e",QUOTE,COLON,SLASH,SLASH,SP,"c","o","m","m","e","n","t",NL>>
    \o <<QUOTE,"o","k",QUOTE,"}","]">>

System == <<"s","y","s","t","e","m">>

Name == <<"N","a","m","e">>

\* C8 as stated: the example compiles, with Name = "Bunny", to one system
\* message whose content is
\* `Say hello to Bunny.\n{"greeting":"hi","note": // comment\n"ok"}`.
C8_ExampleAsStated ==
    (Done /\ doc.kind = "example" /\ getValue(annotations, Name) = Bunny) =>
        sc.messages = <<Message(System, ExampleClaimed)>>

\* C8 amended: the example compiles, with Name = "Bunny", to one system
\* message whose content is
\* `Say hello to Bunny.[{"greeting":"hi","note":// comment\n"ok"}]`.
C8_Example ==
    (Done /\ doc.kind = "example" /\ getValue(annotations, Name) = Bunny) =>
        (sc.err = "nil" /\ sc.messages = <<Message(System, ExampleCompiled)>>)

C8_Witness ==
    /\ Done
    /\ doc.kind = "example"
    /\ getValue(annotations, Name) = Bunny
    /\ Len(sc.messages) = 1

\* The longest run of identifier characters of p from position i on.
RECURSIVE IdentifierAt(_, _)
IdentifierAt(p, i) ==
    IF i < Len(p) /\ At(p, i) \in IdentChars
    THEN <<At(p, i)>> \o IdentifierAt(p, i + 1)
    ELSE <<>>

Escapable == {AT, QUOTE, "{", "[", "}", "]"}

Cur == At(sc.prompt, sc.i)

InString == sc.mode = "string" /\ sc.i < Len(sc.prompt)

InComment == sc.mode = "comment" /\ sc.i < Len(sc.prompt)

\* In a section body, outside strings and comments.
InBody == sc.mode = "main" /\ sc.isTabulated /\ sc.i < Len(sc.prompt)

Content(text) == <<Message(<<"s">>, text)>>

IsLiteral(body) == body # <<>> /\ Head(body) \in OpenBrackets

\* The content of the one section of a document whose body is text, or
\* what the failure of its compilation leaves.
Recompiled(text) == processPrompt(NewScan(RenderBody(text)), annotations).messages

\* C15 as stated: the content compiled from a section whose body is a
\* structured literal compiles, as the body of a section, to the same
\* content again.
C15_Idempotent ==
    ( /\ Done
      /\ doc.kind = "body"
      /\ IsLiteral(doc.body)
      /\ sc.err = "nil"
      /\ Len(sc.messages) = 1 ) =>
        Recompiled(sc.messages[1].Content) = sc.messages

\* C15 for literals with no backslash and no `@`, which the slashes of
\* SlashesBody still refute.
C15_IdempotentPlain ==
    ( /\ Done
      /\ doc.kind = "body"
      /\ IsLiteral(doc.body)
      /\ \A k \in 1..Len(doc.body) : doc.body[k] \notin {BSL, AT}
      /\ sc.err = "nil"
      /\ Len(sc.messages) = 1 ) =>
        Recompiled(sc.messages[1].Content) = sc.messages

\* The first line of ls that is not empty, or the empty line.
RECURSIVE FirstLine(_)
FirstLine(ls) ==
    IF ls = <<>> THEN Str0
    ELSE IF Head(ls) # Str0 THEN Head(ls) ELSE FirstLine(Tail(ls))

Dangling == sc.err = "tabulated text without a label"

\* C16: a document of arbitrary lines fails with the error of a
\* continuation line without a label exactly when its first non-empty line
\* is a continuation line (one that starts with a tab or four spaces); a
\* document that starts with a label never fails with that error.
C16_DanglingContinuation ==
    /\ (Done /\ doc.kind = "mixed") =>
          (Dangling <=> FirstLine(doc.lines) \in ContinuationLines)
    /\ (Done /\ doc.kind \in {"plain", "body", "example"}) => ~Dangling

C16_Witness ==
    /\ Done
    /\ doc.kind = "mixed"
    /\ doc.lines = <<Str0, <<SP, SP, SP, SP, "c">>, LabelLine>>
    /\ Dangling
    /\ sc.messages = <<>>

\* The cursor is at a label: a non-empty identifier and a colon.
AtLabel ==
    LET id == IdentifierAt(sc.prompt, sc.i)
    IN  /\ id # <<>>
        /\ sc.i + Len(id) < Len(sc.prompt)
        /\ At(sc.prompt, sc.i + Len(id)) = COLON

\* The cursor is at a constant: a non-empty identifier, optional spaces
\* and tabs, and an equals sign.
AtConstant ==
    LET id == IdentifierAt(sc.prompt, sc.i)
        j == SkipWhile(sc.prompt, sc.i + Len(id), Tabulation)
    IN  /\ id # <<>>
        /\ j < Len(sc.prompt)
        /\ At(sc.prompt, j) = "="

SyntaxErrors == {"expected a label", "expected a label, found nothing"}

MaxTiers == 2      \* tiers of a batch
MaxPrompts == 2    \* prompts of a tier
MaxCalls == 3      \* calls a single caller makes to the store
MaxWorkers == 3    \* prompts of a batch, all tiers together

X == <<"X">>

V == <<"v">>

PromptSuffix == <<".", "p", "r", "o", "m", "p", "t">>

HasSuffix(s, suffix) ==
    /\ Len(s) >= Len(suffix)
    /\ SubSeq(s, Len(s) - Len(suffix) + 1, Len(s)) = suffix

\* strings.TrimSuffix
TrimSuffix(s, suffix) ==
    IF HasSuffix(s, suffix) THEN SubSeq(s, 1, Len(s) - Len(suffix)) ELSE s

\* A prompt that compiles and refers to the annotation X, and one that has a
\* continuation line before any label.
RefPrompt ==
    [Name |-> <<"0", "_", "a">> \o PromptSuffix, Text |-> <<"s", COLON, NL, TAB, AT, "X", NL>>]

BadPrompt ==
    [Name |-> <<"1", "_", "b">> \o PromptSuffix, Text |-> <<TAB, "b", NL>>]

Prompts == {RefPrompt, BadPrompt}

\* The prompts of a batch, over its tiers.
RECURSIVE Count(_)
Count(b) == IF b = <<>> THEN 0 ELSE Len(Head(b)) + Count(Tail(b))

Batches ==
    { b \in SeqsUpTo(SeqsUpTo(Prompts, MaxPrompts), MaxTiers) : Count(b) <= MaxWorkers }

Configs == {Part001Hooks, Part001NoHooks, Part003Callback}

WorkersOf(b) == UNION { { <<t, i>> : i \in 1..Len(b[t]) } : t \in 1..Len(b) }

Error(w, chain) == [from |-> w, chain |-> chain]

\* fmt.Errorf("...: %w", err)
Wrap(text, e) == [from |-> e.from, chain |-> <<text>> \o e.chain]

\* json.Marshal of a string, character by character
JSONEscape(c) ==
    CASE c = QUOTE -> <<BSL, QUOTE>>
      [] c = BSL -> <<BSL, BSL>>
      [] c = NL -> <<BSL, "n">>
      [] c = TAB -> <<BSL, "t">>
      [] c = "<" -> <<BSL, "u", "0", "0", "3", "c">>
      [] c = ">" -> <<BSL, "u", "0", "0", "3", "e">>
      [] c = "&" -> <<BSL, "u", "0", "0", "2", "6">>
      [] OTHER -> <<c>>

jsonMarshal(v) == <<QUOTE>> \o Concat([k \in 1..Len(v) |-> JSONEscape(v[k])]) \o <<QUOTE>>

\* What SetAnnotation stores for a string value: its JSON encoding in the
\* revision with hooks, fmt.Sprintf("%v", value) in the one with a callback.
StoredValue(rev, v) == IF rev = "hooks" THEN jsonMarshal(v) ELSE v

\* What a callback or an OnAfterProcess hook does, as far as the builder
\* sees: it may call SetAnnotation(X, V) or SetAnnotation(X, nil), and it
\* returns an error or nil.
CallbackBehaviours ==
    { [act |-> "none", fails |-> FALSE],
      [act |-> "none", fails |-> TRUE],
      [act |-> "set", fails |-> FALSE],
      [act |-> "delete", fails |-> FALSE] }

BeforeOutcomes == {"ok", "skip", "err"}

NewWorker(prompt) ==
    [ pc |-> "idle",
      sc |-> NewScan(prompt.Text),
      err |-> NilError,
      messages |-> <<>>,
      before |-> "none",
      after |-> "none",
      act |-> "none",
      out |-> <<>>,
      sent |-> 0 ]

\* The scan up to the next read of the store, or to its end. The state after
\* a step is bound as a value (t) before the scan goes on from it.
RECURSIVE scanToAnnotation(_)
scanToAnnotation(s) ==
    IF Branch(s) \in {"done", "annotation"} THEN s
    ELSE CHOOSE r \in { scanToAnnotation(t) : t \in {processPromptStep(s)} } : TRUE

Crashed == mpc = "crashed"

Running(w) == ~Crashed /\ w \in DOMAIN wk

\* HasAfter, the callback of ProcessBatch never being called.
HasAfterHookOnly == options.onAfterProcess

HasAfter == options.rev = "callback" \/ options.onAfterProcess

\* wg.Add, counting one worker whatever the tier holds.
WgAddFirst == IF batch[tier] = <<>> THEN Len(batch[tier]) ELSE 1

\* wg.Add(len(prompts))
WgAdd == Len(batch[tier])

\* wg.Wait, returning at once.
WaitReturnsEarly == TRUE

\* wg.Wait()
WaitReturns == wg = 0

\* The range over the channel, keeping the last error it holds.
LastError == errChan[Len(errChan)]

\* for err := range errChan { return ... }
FirstError == Head(errChan)

\* AfterError, the error of the hook or callback being dropped.
AfterErrorDropped(w) == NilError

\* The error of a hook or callback that fails, as Process / the goroutine
\* wraps it.
AfterError(w) ==
    IF options.rev = "callback"
    THEN Error(w, <<"error processing callback", "callback error">>)
    ELSE Error(w, <<"error processing prompt", "error after processing", "hook error">>)

BeforeError(w) ==
    Error(w, <<"error processing prompt", "error before processing", "hook error">>)

\* CompileError, the error of processPrompt being dropped.
CompileErrorDropped(w, s) == NilError

CompileError(w, s) ==
    IF options.rev = "callback"
    THEN Error(w, <<"error processing prompt", s.err>>)
    ELSE Error(w, <<"error processing prompt", "error processing prompt", s.err>>)

\* Process, returning the messages it compiled whether it fails or not.
ProcessReturnsResults(results, err) == results

\* The messages Process returns: []Message{} with an error, the results of
\* processPrompt otherwise.
ProcessReturns(results, err) == IF err # NilError THEN <<>> ELSE results

BatchInit ==
    /\ options \in Configs
    /\ batch \in Batches
    /\ annotations = NewPromptBuilder(X :> <<"o">>)
    /\ mutex = Unlocked
    /\ tier = 1
    /\ mpc = "range"
    /\ wg = 0
    /\ errChan = <<>>
    /\ ret = NilError
    /\ wk = [w \in WorkersOf(batch) |-> NewWorker(batch[w[1]][w[2]])]
    /\ sc = NewScan(Str0)
    /\ doc = [kind |-> "none", sections |-> <<>>, body |-> Str0, lines |-> <<>>]
    /\ calls = <<>>

\* for _, prompts := range batch { wg.Add(len(prompts)); go func(i) ... }
MainSpawn ==
    /\ mpc = "range"
    /\ tier <= Len(batch)
    /\ wg' = WgAdd
    /\ errChan' = <<>>
    /\ wk' = [w \in DOMAIN wk |-> IF w[1] = tier THEN [wk[w] EXCEPT !.pc = "ready"] ELSE wk[w]]
    /\ mpc' = "wait"
    /\ UNCHANGED <<calls, sc, doc, annotations, mutex, options, batch, tier, ret>>

\* wg.Wait(); close(errChan); the first error of the channel, if any
MainJoin ==
    /\ mpc = "wait"
    /\ WaitReturns
    /\ IF errChan # <<>>
       THEN /\ ret' = Wrap("error processing batch", FirstError)
            /\ mpc' = "returned"
            /\ tier' = tier
       ELSE /\ ret' = ret
            /\ mpc' = "range"
            /\ tier' = tier + 1
    /\ UNCHANGED <<calls, sc, doc, annotations, mutex, options, batch, wg, errChan, wk>>

\* return nil
MainReturn ==
    /\ mpc = "range"
    /\ tier > Len(batch)
    /\ mpc' = "returned"
    /\ ret' = NilError
    /\ UNCHANGED <<calls, sc, doc, annotations, mutex, options, batch, tier, wg, errChan, wk>>

TrimName(b, w) ==
    [b EXCEPT ![w[1]][w[2]].Name = TrimSuffix(@, PromptSuffix)]

\* The goroutine starts; in the revision with hooks it trims the name first.
WorkerStart(w) ==
    /\ Running(w)
    /\ wk[w].pc = "ready"
    /\ batch' = IF options.rev = "hooks" THEN TrimName(batch, w) ELSE batch
    /\ wk' = [wk EXCEPT ![w].pc = IF options.onBeforeProcess THEN "before" ELSE "compile"]
    /\ UNCHANGED <<calls, sc, doc, annotations, mutex, options, tier, mpc, wg, errChan, ret>>

\* Process going on to processPrompt although the hook signalled skip, as
\* a Process that scans whatever the hook answers does.
AfterBeforeSkipScans(out) == IF out = "err" THEN "return" ELSE "compile"

\* Where Process goes once the hook has answered: if err != nil { return },
\* if skip { return nil, nil }, processPrompt otherwise.
AfterBefore(out) == IF out = "ok" THEN "compile" ELSE "return"

\* skip, err := pB.onBeforeProcess(name, prompt)
OnBeforeProcess(w) ==
    /\ Running(w)
    /\ wk[w].pc = "before"
    /\ \E out \in BeforeOutcomes :
         wk' = [wk EXCEPT ![w].before = out,
                          ![w].err = IF out = "err" THEN BeforeError(w) ELSE NilError,
                          ![w].out = <<>>,
                          ![w].pc = AfterBefore(out)]
    /\ UNCHANGED <<calls, sc, doc, annotations, mutex, options, batch, tier, mpc, wg, errChan, ret>>

\* Where the worker is once its scan has stopped at s: at a read of the
\* store, or past processPrompt.
Scanned(w, s) ==
    IF Branch(s) = "annotation"
    THEN [wk[w] EXCEPT !.sc = s, !.pc = "getAnnotation"]
    ELSE IF s.err # "nil"
    THEN [wk[w] EXCEPT !.sc = s, !.err = CompileError(w, s), !.pc = "return",
                       !.out = ProcessReturns(s.messages, CompileError(w, s))]
    ELSE [wk[w] EXCEPT !.sc = s, !.messages = s.messages,
                       !.out = IF options.onAfterProcess THEN <<>>
                               ELSE ProcessReturns(s.messages, NilError),
                       !.pc = IF HasAfter THEN "after" ELSE "return"]

Panics(s) == Branch(s) = "done" /\ s.err = "panic"

\* What a goroutine's panic or a fatal error of the runtime leaves.
Crash ==
    /\ mpc' = "crashed"
    /\ UNCHANGED <<calls, sc, doc, annotations, mutex, options, tier, wg, errChan, ret, wk>>

\* processPrompt, up to its first read of the store or to its end; in the
\* revision with a callback the name is trimmed once the prompt compiled.
AfterScan(w, s) ==
    IF Panics(s) THEN Crash /\ UNCHANGED batch
    ELSE /\ wk' = [wk EXCEPT ![w] = Scanned(w, s)]
         /\ batch' = IF options.rev = "callback" /\ Branch(s) = "done" /\ s.err = "nil"
                     THEN TrimName(batch, w) ELSE batch
         /\ UNCHANGED <<calls, sc, doc, options, tier, mpc, wg, errChan, ret>>

Compile(w) ==
    /\ Running(w)
    /\ wk[w].pc = "compile"
    /\ AfterScan(w, scanToAnnotation(wk[w].sc))
    /\ UNCHANGED <<annotations, mutex>>

\* getAnnotation: pB.annotationsMutexn.RLock()
RLock(w) ==
    /\ Running(w)
    /\ wk[w].pc = "getAnnotation"
    /\ mutex.writer = <<>>
    /\ mutex' = [mutex EXCEPT !.readers = @ \cup {w}]
    /\ wk' = [wk EXCEPT ![w].pc = "read"]
    /\ UNCHANGED <<calls, sc, doc, annotations, options, batch, tier, mpc, wg, errChan, ret>>

\* getAnnotation: annotation := pB.annotations[id]; RUnlock(); and the scan
\* goes on to its next read of the store or to its end.
RUnlock(w) ==
    /\ Running(w)
    /\ wk[w].pc = "read"
    /\ mutex' = [mutex EXCEPT !.readers = @ \ {w}]
    /\ AfterScan(w, scanToAnnotation(
                        Annotation(wk[w].sc, getValue(annotations, AnnotationId(wk[w].sc)))))
    /\ UNCHANGED annotations

\* The OnAfterProcess hook or the callback runs, up to its return or to the
\* SetAnnotation it makes.
OnAfterProcess(w) ==
    /\ Running(w)
    /\ wk[w].pc = "after"
    /\ \E b \in CallbackBehaviours :
         wk' = [wk EXCEPT ![w].act = b.act,
                          ![w].after = IF b.fails THEN "err" ELSE "ok",
                          ![w].err = IF b.fails THEN AfterError(w) ELSE NilError,
                          ![w].out = IF options.onAfterProcess
                                     THEN ProcessReturns(wk[w].messages,
                                              IF b.fails THEN AfterError(w) ELSE NilError)
                                     ELSE wk[w].out,
                          ![w].pc = CASE b.act = "none" -> "return"
                                      [] b.act = "set" -> "set"
                                      [] b.act = "delete" -> "lock"]
    /\ UNCHANGED <<calls, sc, doc, annotations, mutex, options, batch, tier, mpc, wg, errChan, ret>>

\* SetAnnotation(id, value), value not nil: the map is written with no lock.
SetAnnotation(w) ==
    /\ Running(w)
    /\ wk[w].pc = "set"
    /\ annotations' = setValue(annotations, X, StoredValue(options.rev, V))
    /\ wk' = [wk EXCEPT ![w].pc = "return"]
    /\ UNCHANGED <<calls, sc, doc, mutex, options, batch, tier, mpc, wg, errChan, ret>>

\* SetAnnotation(id, nil): pB.annotationsMutexn.Lock()
Lock(w) ==
    /\ Running(w)
    /\ wk[w].pc = "lock"
    /\ mutex.writer = <<>>
    /\ mutex.readers = {}
    /\ mutex' = [mutex EXCEPT !.writer = w]
    /\ wk' = [wk EXCEPT ![w].pc = "delete"]
    /\ UNCHANGED <<calls, sc, doc, annotations, options, batch, tier, mpc, wg, errChan, ret>>

\* SetAnnotation(id, nil): delete(pB.annotations, id); Unlock()
DeleteUnlock(w) ==
    /\ Running(w)
    /\ wk[w].pc = "delete"
    /\ annotations' = deleteValue(annotations, X)
    /\ mutex' = [mutex EXCEPT !.writer = <<>>]
    /\ wk' = [wk EXCEPT ![w].pc = "return"]
    /\ UNCHANGED <<calls, sc, doc, options, batch, tier, mpc, wg, errChan, ret>>

\* errChan made with no buffer.
ErrChanUnbuffered(t) == 0

\* errChan := make(chan error, len(prompts))
ErrChanCap(t) == Len(batch[t])

\* errChan <- err, when Process or the callback failed; the deferred wg.Done()
WorkerReturn(w) ==
    /\ Running(w)
    /\ wk[w].pc = "return"
    /\ IF wk[w].err # NilError
       THEN /\ Len(errChan) < ErrChanCap(w[1])
            /\ errChan' = Append(errChan, wk[w].err)
            /\ wk' = [wk EXCEPT ![w].pc = "done", ![w].sent = Len(errChan) + 1]
       ELSE /\ errChan' = errChan
            /\ wk' = [wk EXCEPT ![w].pc = "done"]
    /\ wg' = wg - 1
    /\ UNCHANGED <<calls, sc, doc, annotations, mutex, options, batch, tier, mpc, ret>>

MapWriting(w) == wk[w].pc \in {"set", "delete"}

MapReading(w) == wk[w].pc = "read"

\* An unlocked write of the map overlaps another access of it.
Racing ==
    \E w1, w2 \in DOMAIN wk :
        /\ w1 # w2
        /\ wk[w1].pc = "set"
        /\ MapWriting(w2) \/ MapReading(w2)

\* The runtime's fatal error on a concurrent map access.
Fatal ==
    /\ ~Crashed
    /\ Racing
    /\ Crash
    /\ UNCHANGED batch

Next ==
    \/ MainSpawn
    \/ MainJoin
    \/ MainReturn
    \/ Fatal
    \/ \E w \in DOMAIN wk : WorkerStart(w)
    \/ \E w \in DOMAIN wk : OnBeforeProcess(w)
    \/ \E w \in DOMAIN wk : Compile(w)
    \/ \E w \in DOMAIN wk : RLock(w)
    \/ \E w \in DOMAIN wk : RUnlock(w)
    \/ \E w \in DOMAIN wk : OnAfterProcess(w)
    \/ \E w \in DOMAIN wk : SetAnnotation(w)
    \/ \E w \in DOMAIN wk : Lock(w)
    \/ \E w \in DOMAIN wk : DeleteUnlock(w)
    \/ \E w \in DOMAIN wk : WorkerReturn(w)

Spec == BatchInit /\ [][Next]_vars

\* ---------------------------------------------------------------- claims on Spec
Started(w) == wk[w].pc # "idle"

Finished(w) == wk[w].pc = "done"

TierOf(w) == w[1]

\* C1: a worker of a later tier is started (its goroutine exists) only when
\* every worker of every earlier tier has finished, hooks and callback
\* included: tiers start in ascending order and never overlap.
C1_TierBarrier ==
    \A w1, w2 \in DOMAIN wk :
        (TierOf(w1) < TierOf(w2) /\ Started(w2)) => Finished(w1)

C1_Witness ==
    /\ Len(batch) = 2
    /\ Len(batch[1]) = 2
    /\ Len(batch[2]) = 1
    /\ Finished(<<1, 1>>) /\ Finished(<<1, 2>>)
    /\ wk[<<1, 1>>].act = "set"
    /\ wk[<<2, 1>>].pc = "read"

\* C2 as stated: a write of the annotations map never overlaps a read or
\* another write of it, each access being made under the mutex.
C2_RaceFree ==
    \A w1, w2 \in DOMAIN wk :
        (w1 # w2 /\ MapWriting(w1)) => ~(MapWriting(w2) \/ MapReading(w2))

LaterTiersIdle(w) == \A w2 \in DOMAIN wk : TierOf(w2) > TierOf(w) => ~Started(w2)

CompileFailed(w) == wk[w].sc.mode = "done" /\ wk[w].sc.err # "nil"

\* C3: once a prompt of a tier has failed to compile, no worker of a later
\* tier is ever started and what ProcessBatch returns is an error; and when
\* no prompt has failed, ProcessBatch returns nil, every worker of every
\* tier having finished.
C3_ErrorAborts ==
    /\ \A w \in DOMAIN wk :
         CompileFailed(w) =>
            /\ LaterTiersIdle(w)
            /\ mpc = "returned" => ret # NilError
    /\ (mpc = "returned" /\ \A w \in DOMAIN wk : wk[w].err = NilError) =>
            /\ ret = NilError
            /\ \A w \in DOMAIN wk : Finished(w)

C3_Witness ==
    /\ mpc = "returned"
    /\ ret # NilError
    /\ Len(batch) = 2
    /\ Len(batch[1]) = 2
    /\ Len(batch[2]) = 1
    /\ CompileFailed(<<1, 2>>)
    /\ ~CompileFailed(<<1, 1>>)
    /\ ~Started(<<2, 1>>)

HookFailed(w) == wk[w].before = "err" \/ wk[w].after = "err"

\* C4: once OnBeforeProcess, OnAfterProcess or the batch callback has
\* returned an error for a prompt of a tier, no worker of a later tier is
\* ever started and what ProcessBatch returns is an error.
C4_HookErrorAborts ==
    \A w \in DOMAIN wk :
        HookFailed(w) =>
            /\ LaterTiersIdle(w)
            /\ mpc = "returned" => ret # NilError

C4_Witness ==
    /\ mpc = "returned"
    /\ ret # NilError
    /\ options.rev = "callback"
    /\ Len(batch) = 2
    /\ Len(batch[1]) = 1
    /\ Len(batch[2]) = 1
    /\ wk[<<1, 1>>].after = "err"
    /\ ~Started(<<2, 1>>)

\* C5: when ProcessBatch returns an error, every worker of the tier it
\* stopped at has finished, and the error wraps the one that was sent first
\* to the tier's channel.
C5_SiblingsFinish ==
    (mpc = "returned" /\ ret # NilError) =>
        /\ \A w \in DOMAIN wk : TierOf(w) = tier => Finished(w)
        /\ \E w \in DOMAIN wk :
             /\ TierOf(w) = tier
             /\ wk[w].sent = 1
             /\ ret = Wrap("error processing batch", wk[w].err)

C5_Witness ==
    /\ mpc = "returned"
    /\ tier = 1
    /\ Len(batch) = 2
    /\ Len(batch[1]) = 2
    /\ wk[<<1, 1>>].sent = 2
    /\ wk[<<1, 2>>].sent = 1
    /\ ret.from = <<1, 2>>

\* C6: in a batch [[A], [B]] whose callback for A has called
\* SetAnnotation(X, V), the compilation of B, which refers to @X, yields V as
\* its content.
C6_NextTierObserves ==
    ( /\ options.rev = "callback"
      /\ Len(batch) = 2
      /\ Len(batch[1]) = 1
      /\ Len(batch[2]) = 1
      /\ batch[2][1].Text = RefPrompt.Text
      /\ wk[<<1, 1>>].act = "set"
      /\ wk[<<2, 1>>].sc.mode = "done" ) =>
        wk[<<2, 1>>].sc.messages = <<Message(<<"s">>, V)>>

C6_Witness ==
    /\ options.rev = "callback"
    /\ Len(batch) = 2
    /\ Len(batch[1]) = 1
    /\ Len(batch[2]) = 1
    /\ batch[2][1].Text = RefPrompt.Text
    /\ wk[<<1, 1>>].act = "set"
    /\ wk[<<2, 1>>].pc = "after"
    /\ wk[<<2, 1>>].messages = <<Message(<<"s">>, V)>>

\* Process failed for the prompt of worker w: processPrompt returned an
\* error, or a hook that Process runs did.
ProcessFailed(w) ==
    \/ CompileFailed(w)
    \/ options.rev = "hooks" /\ HookFailed(w)

\* C18: when the compilation of a document fails, by an error of the scan or
\* of a hook, the list of messages Process returns is empty, whatever was
\* compiled before the error.
C18_NoPartialMessages ==
    \A w \in DOMAIN wk : ProcessFailed(w) => wk[w].out = <<>>

C18_Witness ==
    /\ options = Part001Hooks
    /\ <<1, 1>> \in DOMAIN wk
    /\ Finished(<<1, 1>>)
    /\ wk[<<1, 1>>].after = "err"
    /\ wk[<<1, 1>>].messages # <<>>
    /\ wk[<<1, 1>>].out = <<>>

\* ---------------------------------------------------------------- StoreSpec
\* One caller using the store of a builder: SetAnnotation with a string,
\* SetAnnotation with nil, getAnnotation, in any order.
Z == <<"Z">>

Quoted == <<QUOTE, "v", BSL>>

StoreIds == {X, Z, OutputSchemaId}

StoreValues == {V, Quoted}

\* PromptBuilderOptions.Annotations: nothing, an annotation of the caller's
\* own, a value for a built-in identifier, both.
CallerAnnotations ==
    { <<>>,
      X :> <<"o">>,
      OutputSchemaId :> V,
      (X :> <<"o">>) @@ (OutputSchemaId :> V) }

\* PromptBuilderOptions.OnGetAnnotation, a func(id string) *string: nil, or
\* a function that returns a pointer to returns[id] for the identifiers it
\* answers and nil for every other identifier.
NoOnGetAnnotation == [set |-> FALSE, returns |-> <<>>]

OnGetAnnotations ==
    { [set |-> TRUE, returns |-> <<>>],
      [set |-> TRUE, returns |-> X :> <<"h">>],
      [set |-> TRUE, returns |-> (OutputSchemaId :> Str0) @@ (Z :> <<"h">>)] }

\* The options a caller of NewPromptBuilder can give: the revision with the
\* hooks of Process has no OnGetAnnotation.
StoreOptions ==
    { [rev |-> "hooks", onBeforeProcess |-> FALSE, onAfterProcess |-> FALSE,
       Annotations |-> a, OnGetAnnotation |-> NoOnGetAnnotation]
        : a \in CallerAnnotations }
    \cup
    { [rev |-> "callback", onBeforeProcess |-> FALSE, onAfterProcess |-> FALSE,
       Annotations |-> a, OnGetAnnotation |-> h]
        : a \in CallerAnnotations, h \in OnGetAnnotations \cup {NoOnGetAnnotation} }

InitialStore == NewPromptBuilder(options.Annotations)

Call(op, id, value, got) == [op |-> op, id |-> id, value |-> value, got |-> got]

\* getAnnotation with the store asked first and the hook only for an
\* identifier the store has not.
getAnnotationStoreFirst(opts, store, id) ==
    IF id \in DOMAIN store THEN store[id]
    ELSE IF opts.OnGetAnnotation.set /\ id \in DOMAIN opts.OnGetAnnotation.returns
    THEN opts.OnGetAnnotation.returns[id]
    ELSE Str0

\* getAnnotation: the value the hook returns when there is a hook and it
\* returns one, the value of the store otherwise.
getAnnotation(opts, store, id) ==
    IF opts.OnGetAnnotation.set /\ id \in DOMAIN opts.OnGetAnnotation.returns
    THEN opts.OnGetAnnotation.returns[id]
    ELSE getValue(store, id)

StoreInit ==
    /\ options \in StoreOptions
    /\ annotations = InitialStore
    /\ mutex = Unlocked
    /\ calls = <<>>
    /\ batch = <<>>
    /\ tier = 1
    /\ mpc = "none"
    /\ wg = 0
    /\ errChan = <<>>
    /\ ret = NilError
    /\ wk = <<>>
    /\ sc = NewScan(Str0)
    /\ doc = [kind |-> "none", sections |-> <<>>, body |-> Str0, lines |-> <<>>]

\* SetAnnotation(id, value), value a string
CallSetAnnotation ==
    /\ Len(calls) < MaxCalls
    /\ \E id \in StoreIds, value \in StoreValues :
         /\ annotations' = setValue(annotations, id, StoredValue(options.rev, value))
         /\ calls' = Append(calls, Call("set", id, value, Str0))
    /\ UNCHANGED <<sc, doc, batchVars>>

\* SetAnnotation(id, nil): Lock(); delete(pB.annotations, id); Unlock()
CallDeleteAnnotation ==
    /\ Len(calls) < MaxCalls
    /\ mutex = Unlocked
    /\ \E id \in StoreIds :
         /\ annotations' = deleteValue(annotations, id)
         /\ calls' = Append(calls, Call("delete", id, Str0, Str0))
    /\ UNCHANGED <<sc, doc, batchVars>>

\* getAnnotation(id)
CallGetAnnotation ==
    /\ Len(calls) < MaxCalls
    /\ mutex.writer = <<>>
    /\ \E id \in StoreIds :
         calls' = Append(calls, Call("get", id, Str0, getAnnotation(options, annotations, id)))
    /\ UNCHANGED <<sc, doc, annotations, batchVars>>

StoreNext ==
    \/ CallSetAnnotation
    \/ CallDeleteAnnotation
    \/ CallGetAnnotation

StoreSpec == StoreInit /\ [][StoreNext]_vars

\* ---------------------------------------------------------------- claims on StoreSpec
\* The last SetAnnotation of id among the first n calls: "set", "delete",
\* or "none" when there is none.
RECURSIVE LastSet(_, _)
LastSet(id, n) ==
    IF n = 0 THEN "none"
    ELSE IF calls[n].id = id /\ calls[n].op \in {"set", "delete"} THEN calls[n].op
    ELSE LastSet(id, n - 1)

LastCall == calls[Len(calls)]

\* The builder has a resolution hook and the hook returns a value for id.
HookAnswers(id) ==
    options.OnGetAnnotation.set /\ id \in DOMAIN options.OnGetAnnotation.returns

\* C19: a getAnnotation of an identifier whose last SetAnnotation had a nil
\* value, or that was never set and is no annotation of the builder,
\* returns the empty string; a built-in annotation that was deleted is such
\* an identifier.  (A lookup that a resolution hook answers does not reach
\* the store.)
C19_UnsetIsEmpty ==
    (calls # <<>> /\ LastCall.op = "get" /\ ~HookAnswers(LastCall.id)) =>
        LET last == LastSet(LastCall.id, Len(calls) - 1)
        IN  ( \/ last = "delete"
              \/ last = "none" /\ LastCall.id \notin DOMAIN InitialStore ) =>
                LastCall.got = Str0

C19_Witness ==
    /\ Len(calls) = 3
    /\ calls[1] = Call("set", OutputSchemaId, V, Str0)
    /\ calls[2] = Call("delete", OutputSchemaId, Str0, Str0)
    /\ calls[3] = Call("get", OutputSchemaId, Str0, Str0)

\* C20 as stated: a getAnnotation that follows a SetAnnotation of the same
\* identifier with a string returns exactly that string.
C20_StringStoredAsIs ==
    ( /\ Len(calls) >= 2
      /\ LastCall.op = "get"
      /\ calls[Len(calls) - 1].op = "set"
      /\ calls[Len(calls) - 1].id = LastCall.id ) =>
        LastCall.got = calls[Len(calls) - 1].value


\* The identifiers of the built-in annotations.
DefaultIds == {OutputSchemaId, JSONOutputId, LockedInputId}

C22_HookBeforeStore ==
    (calls # <<>> /\ LastCall.op = "get" /\ options.OnGetAnnotation.set) =>
        IF LastCall.id \in DOMAIN options.OnGetAnnotation.returns
        THEN LastCall.got = options.OnGetAnnotation.returns[LastCall.id]
        ELSE /\ LastCall.id \in DOMAIN annotations
                  => LastCall.got = annotations[LastCall.id]
             /\ LastCall.id \notin DOMAIN annotations => LastCall.got = Str0

\* The hook answers for an identifier the store has with another value,
\* and the lookup returned the value of the hook.
C22_Witness ==
    /\ calls # <<>>
    /\ LastCall.op = "get"
    /\ LastCall.id = X
    /\ HookAnswers(X)
    /\ X \in DOMAIN annotations
    /\ annotations[X] # options.OnGetAnnotation.returns[X]
    /\ LastCall.got = <<"h">>

\* The hook declines and the store has not the identifier.
C22_DeclinedWitness ==
    /\ calls # <<>>
    /\ LastCall.op = "get"
    /\ options.OnGetAnnotation.set
    /\ ~HookAnswers(LastCall.id)
    /\ LastCall.id \notin DOMAIN annotations
    /\ LastCall.got = Str0


\* ---------------------------------------------------------------- ParamSpec
\* The revisions with constants: `identifier = value` lines at the top level
\* of a document.  "params" is src/unnamed/part_002, whose scan collects them
\* and hands them to the hooks; "constants" is src/builder_default.go, whose
\* scan collects them in a local map and whose Process hands the hooks the
\* result of a regular-expression sweep of the text.
\* The documents are lines of three sorts: constant lines, the label line
\* `s:`, the body line `<tab>b` and the bare word `n`; no brackets, strings,
\* annotations or comments inside bodies, so that of the loop's branches the
\* new-line branch, the labels-or-params branch and the last one run.
MaxParamLines == 3

EQ == "="

Digits == {"0","1","2","3","4","5","6","7","8","9"}

\* strings.TrimSpace
RECURSIVE TrimLeft(_)
TrimLeft(s) ==
    IF s # <<>> /\ Head(s) \in Spaces THEN TrimLeft(Tail(s)) ELSE s

RECURSIVE TrimRight(_)
TrimRight(s) ==
    IF s # <<>> /\ s[Len(s)] \in Spaces
    THEN TrimRight(SubSeq(s, 1, Len(s) - 1)) ELSE s

TrimSpace(s) == TrimRight(TrimLeft(s))

\* The first j >= i with j = Len(p) or p[j] = c.
RECURSIVE SkipTo(_, _, _)
SkipTo(p, i, c) ==
    IF i >= Len(p) THEN i
    ELSE IF At(p, i) = c THEN i ELSE SkipTo(p, i + 1, c)

\* prompt[i] == '/' && i+1 < len(prompt) && prompt[i+1] == '/'
CommentAt(p, i) ==
    /\ i + 1 < Len(p)
    /\ At(p, i) = SLASH
    /\ At(p, i + 1) = SLASH

\* The first j >= i where p[j] is a newline or a comment starts.
RECURSIVE SkipToCommentOrNL(_, _)
SkipToCommentOrNL(p, i) ==
    IF i >= Len(p) THEN i
    ELSE IF At(p, i) = NL \/ CommentAt(p, i) THEN i
    ELSE SkipToCommentOrNL(p, i + 1)

\* A constant line as its parts: identifier, blanks, "=", blanks, value,
\* blanks, comment.
ConstLine(id, pre, post, value, trail, comment) ==
    [ kind |-> "const", id |-> id, pre |-> pre, post |-> post,
      value |-> value, trail |-> trail, comment |-> comment ]

ConstLines ==
    { ConstLine(<<"a">>, <<SP>>, <<SP>>, <<"v">>, Str0, Str0),
      ConstLine(<<"a">>, Str0, Str0, <<"w">>, <<SP>>, <<SLASH, SLASH, "c">>),
      ConstLine(<<"1", "b">>, <<SP>>, <<SP>>, <<AT, "X">>, Str0, Str0),
      ConstLine(<<"k">>, <<SP>>, Str0, Str0, Str0, Str0),
      ConstLine(<<"k">>, <<SP>>, <<SP>>, <<"p", EQ, "q">>, Str0, Str0) }

ParamLabelLine ==
    [ kind |-> "label", id |-> <<"s">>, pre |-> Str0, post |-> Str0,
      value |-> Str0, trail |-> Str0, comment |-> Str0 ]

ParamBodyLine ==
    [ kind |-> "body", id |-> Str0, pre |-> Str0, post |-> Str0,
      value |-> <<"b">>, trail |-> Str0, comment |-> Str0 ]

ParamWordLine ==
    [ kind |-> "word", id |-> <<"n">>, pre |-> Str0, post |-> Str0,
      value |-> Str0, trail |-> Str0, comment |-> Str0 ]

ParamLines == ConstLines \cup {ParamLabelLine, ParamBodyLine, ParamWordLine}

RenderParamLine(l) ==
    IF l.kind = "const"
    THEN l.id \o l.pre \o <<EQ>> \o l.post \o l.value \o l.trail \o l.comment
    ELSE IF l.kind = "label" THEN l.id \o <<COLON>>
    ELSE IF l.kind = "body" THEN <<TAB>> \o l.value
    ELSE l.id

\* The text of a file with these lines: readFile ends every line with "\n".
RECURSIVE RenderParamLines(_)
RenderParamLines(ls) ==
    IF ls = <<>> THEN Str0
    ELSE RenderParamLine(Head(ls)) \o <<NL>> \o RenderParamLines(Tail(ls))

ParamDocuments ==
    { [kind |-> "params", sections |-> <<>>, body |-> Str0, lines |-> ls]
        : ls \in SeqsUpTo(ParamLines, MaxParamLines) \ {<<>>} }

\* The locals of processPrompt in these revisions; params is the map named
\* params in part_002 and constants in builder_default.go.
NewParamScan(rev, text) ==
    [ rev |-> rev,
      prompt |-> <<NL>> \o text \o <<NL>>,
      i |-> 0,
      result |-> Str0,
      messages |-> <<>>,
      params |-> <<>>,
      label |-> Str0,
      isTabulated |-> FALSE,
      mode |-> "main",
      err |-> "nil" ]

ParamFail(s, e) == [s EXCEPT !.mode = "done", !.err = e, !.messages = <<>>]

\* The new-line branch.
ParamNewLine(s) ==
    LET p == s.prompt
        i1 == s.i + 1
        t == [s EXCEPT !.isTabulated = FALSE, !.i = i1]
    IN  IF i1 = Len(p) THEN t
        ELSE IF CommentAt(p, i1) THEN [t EXCEPT !.i = SkipTo(p, i1, NL)]
        ELSE IF At(p, i1) \in Tabulation
        THEN LET i2 == SkipWhile(p, i1, Tabulation)
                 u == [t EXCEPT !.isTabulated = TRUE, !.i = i2]
             IN  IF At(p, i2) = NL THEN u
                 ELSE IF CommentAt(p, i2) THEN [u EXCEPT !.i = SkipTo(p, i2, NL)]
                 ELSE IF s.label = Str0
                 THEN ParamFail(u, "found tabulated text without a label")
                 ELSE u
        ELSE t

\* Where the word that starts at the cursor ends.
WordEnd(s) == SkipWhile(s.prompt, s.i, IdentChars)

\* The cursor is in the main loop, at a character that is no newline.
ParamInLine(s) ==
    /\ s.mode = "main"
    /\ s.i < Len(s.prompt)
    /\ At(s.prompt, s.i) # NL

\* The cursor is at a word of the top level that a colon follows.
ParamAtLabel(s) ==
    /\ ParamInLine(s) /\ ~s.isTabulated
    /\ At(s.prompt, s.i) \in IdentChars
    /\ At(s.prompt, WordEnd(s)) = COLON

\* The cursor is at a word of the top level that blanks and an equals sign
\* follow.
ParamAtConstant(s) ==
    /\ ParamInLine(s) /\ ~s.isTabulated
    /\ At(s.prompt, s.i) \in IdentChars
    /\ At(s.prompt, WordEnd(s)) # COLON
    /\ At(s.prompt, SkipWhile(s.prompt, WordEnd(s), Tabulation)) = EQ

\* The labels-or-params branch at a label: the label, blanks, then a newline
\* or a comment.
ParamLabel(s) ==
    LET f == Flush(s)
        p == s.prompt
        j == WordEnd(s)
        k == SkipWhile(p, j + 1, Tabulation)
        g == [f EXCEPT !.label = Slice(p, s.i, j), !.i = k]
    IN  IF CommentAt(p, k) THEN [g EXCEPT !.i = SkipTo(p, k, NL)]
        ELSE IF At(p, k) = NL THEN g
        ELSE ParamFail(g, "expected new line")

\* The labels-or-params branch at a constant.  part_002 stops the value at a
\* comment, trims it, and stores it under the identifier.  In
\* builder_default.go the loop `for prompt[i] != '\n' || (comment)` stops at
\* the newline only, the key is prompt[start:i] with i at the end of the
\* line, and the value is not trimmed.
ParamConstant(s) ==
    LET f == Flush(s)
        p == s.prompt
        start == s.i
        j == WordEnd(s)
        constant == Slice(p, start, j)
        valueStart == SkipWhile(p, SkipWhile(p, j, Tabulation) + 1, Tabulation)
        e == IF s.rev = "params" THEN SkipToCommentOrNL(p, valueStart)
             ELSE SkipTo(p, valueStart, NL)
        key == IF s.rev = "params" THEN constant ELSE Slice(p, start, e)
        value == IF s.rev = "params" THEN TrimSpace(Slice(p, valueStart, e))
                 ELSE Slice(p, valueStart, e)
    IN  [f EXCEPT !.params = setValue(@, key, value), !.i = SkipTo(p, e, NL)]

\* The labels-or-params branch at anything else.
ParamSyntaxError(s) ==
    LET f == Flush(s)
    IN  IF At(s.prompt, s.i) \in IdentChars
        THEN ParamFail([f EXCEPT !.i = SkipWhile(s.prompt, WordEnd(s), Tabulation)],
                       "expected colon or equals sign")
        ELSE ParamFail(f, "expected label or constant, found nothing")

\* Last label, and the return.
ParamLastLabel(s) == [Flush(s) EXCEPT !.mode = "done", !.label = s.label]

\* Process of builder_default.go: the constants of the regular expression
\*   (?m)^[A-Za-z_\-][A-Za-z_\-0-9]*\s*=\s*.*$
\* Where a match that starts at p ends, or -1: a word that does not start
\* with a digit, white space (newlines included), "=", white space as far
\* as it goes, and the rest of that line.
MatchEnd(t, p) ==
    LET j == SkipWhile(t, p, IdentChars)
        k == SkipWhile(t, j, Spaces)
    IN  IF /\ p < Len(t)
           /\ (p = 0 \/ At(t, p - 1) = NL)
           /\ At(t, p) \in IdentChars \ Digits
           /\ k < Len(t)
           /\ At(t, k) = EQ
        THEN SkipTo(t, SkipWhile(t, k + 1, Spaces), NL)
        ELSE 0 - 1

\* strings.Split(match, "=")[0] and [1]
SplitFirst(s) == Slice(s, 0, SkipTo(s, 0, EQ))

SplitSecond(s) ==
    LET from == SkipTo(s, 0, EQ) + 1
    IN  Slice(s, from, SkipTo(s, from, EQ))

\* FindAllString and the loop over the matches, from position p on.
RECURSIVE RegexSweepFrom(_, _, _)
RegexSweepFrom(t, p, constants) ==
    IF p >= Len(t) THEN constants
    ELSE IF MatchEnd(t, p) < 0 THEN RegexSweepFrom(t, p + 1, constants)
    ELSE LET match == Slice(t, p, MatchEnd(t, p))
         IN  RegexSweepFrom(t, MatchEnd(t, p),
                 setValue(constants, TrimSpace(SplitFirst(match)),
                          TrimSpace(SplitSecond(match))))

RegexSweep(text) == RegexSweepFrom(text, 0, <<>>)

\* The constants that Process hands to OnBeforeProcess and OnAfterProcess
\* after a scan without error.
HookConstants(s, text) ==
    IF s.rev = "params" THEN s.params ELSE RegexSweep(text)

ParamInit ==
    /\ doc \in ParamDocuments
    /\ \E rev \in {"params", "constants"} :
         sc = NewParamScan(rev, RenderParamLines(doc.lines))
    /\ annotations = NewPromptBuilder(<<>>)
    /\ mutex = Unlocked
    /\ options = Part001Hooks
    /\ batch = <<>>
    /\ tier = 1
    /\ mpc = "none"
    /\ wg = 0
    /\ errChan = <<>>
    /\ ret = NilError
    /\ wk = <<>>
    /\ calls = <<>>

ParamScanNewLine ==
    /\ sc.mode = "main" /\ sc.i < Len(sc.prompt) /\ At(sc.prompt, sc.i) = NL
    /\ sc' = ParamNewLine(sc)
    /\ UNCHANGED <<annotations, doc, batchVars, calls>>

ParamScanLabel ==
    /\ ParamAtLabel(sc)
    /\ sc' = ParamLabel(sc)
    /\ UNCHANGED <<annotations, doc, batchVars, calls>>

ParamScanConstant ==
    /\ ParamAtConstant(sc)
    /\ sc' = ParamConstant(sc)
    /\ UNCHANGED <<annotations, doc, batchVars, calls>>

ParamScanSyntaxError ==
    /\ ParamInLine(sc) /\ ~sc.isTabulated
    /\ ~ParamAtLabel(sc) /\ ~ParamAtConstant(sc)
    /\ sc' = ParamSyntaxError(sc)
    /\ UNCHANGED <<annotations, doc, batchVars, calls>>

\* Other characters: next(true)
ParamScanOther ==
    /\ ParamInLine(sc) /\ sc.isTabulated
    /\ sc' = nextWrite(sc)
    /\ UNCHANGED <<annotations, doc, batchVars, calls>>

ParamScanReturn ==
    /\ sc.mode = "main" /\ sc.i >= Len(sc.prompt)
    /\ sc' = ParamLastLabel(sc)
    /\ UNCHANGED <<annotations, doc, batchVars, calls>>

ParamNext ==
    \/ ParamScanNewLine
    \/ ParamScanLabel
    \/ ParamScanConstant
    \/ ParamScanSyntaxError
    \/ ParamScanOther
    \/ ParamScanReturn

ParamSpec == ParamInit /\ [][ParamNext]_vars

\* ---------------------------------------------------------------- claims on ParamSpec
\* The constants of a document by its lines: every constant line gives its
\* identifier the value written in it, a later line over an earlier one.
RECURSIVE ConstantsOf(_, _)
ConstantsOf(ls, acc) ==
    IF ls = <<>> THEN acc
    ELSE ConstantsOf(Tail(ls),
             IF Head(ls).kind = "const"
             THEN setValue(acc, Head(ls).id, Head(ls).value) ELSE acc)

\* The scan has returned without error, so that Process calls the hooks.
HooksCalled == sc.mode = "done" /\ sc.err = "nil"

\* C23: the constants passed to the hooks of a document that compiles are,
\* for every top-level line `identifier = value`, the identifier mapped to
\* the text after the equals sign up to the end of the line or the first
\* `//`, trimmed, annotation references as written, a later line overriding
\* an earlier one; in both revisions.
C23_ConstantsOfLines ==
    HooksCalled =>
        HookConstants(sc, RenderParamLines(doc.lines)) = ConstantsOf(doc.lines, <<>>)

\* C23 for the scan of part_002 alone.
C23_ParamsOfLines ==
    (HooksCalled /\ sc.rev = "params") =>
        sc.params = ConstantsOf(doc.lines, <<>>)

\* A document with a constant line that has a comment compiled in part_002.
C23_ParamsWitness ==
    /\ HooksCalled
    /\ sc.rev = "params"
    /\ Len(doc.lines) = 2
    /\ doc.lines[1].kind = "const" /\ doc.lines[1].value = <<"v">>
    /\ doc.lines[2].kind = "const" /\ doc.lines[2].comment # Str0
    /\ sc.params = (<<"a">> :> <<"w">>)

\* The identifier a key of the scan's constants starts with.
IdentPrefix(key) == Slice(key, 0, SkipWhile(key, 0, IdentChars))

\* C24: in builder_default.go the constants of the scan and the constants
\* of the regular-expression sweep of the same text are the same map: the
\* same lines give a constant, under the same identifier, with the same
\* value.
C24_ScanAgreesWithSweep ==
    (HooksCalled /\ sc.rev = "constants") =>
        sc.params = RegexSweep(RenderParamLines(doc.lines))

\* C24, the lines alone: the identifiers of the lines the scan took for
\* constants are the identifiers the sweep recorded.
C24_SameLinesQualify ==
    (HooksCalled /\ sc.rev = "constants") =>
        {IdentPrefix(k) : k \in DOMAIN sc.params}
            = DOMAIN RegexSweep(RenderParamLines(doc.lines))


\* ---------------------------------------------------------------- DirSpec
\* ProcessBatchFromDir: the loop over the listing of a directory that
\* groups the files into tiers, and the name that ProcessBatch then passes,
\* document by document, to Process and its hooks.  (The goroutines of
\* ProcessBatch, their errors and the store are in Spec.)  "hooks" is
\* src/unnamed/part_001, "params" is src/unnamed/part_002, whose
\* ProcessBatchFromDir ignores the error of strconv.Atoi and whose ProcessRaw
\* cuts the name at its underscores.  Every file can be read and compiles.
MaxFiles == 3

UNDERSCORE == "_"

DigitSeq == <<"0","1","2","3","4","5","6","7","8","9">>

DigitVal(c) == (CHOOSE n \in 1..Len(DigitSeq) : DigitSeq[n] = c) - 1

RECURSIVE Decimal(_, _)
Decimal(s, acc) ==
    IF s = <<>> THEN acc ELSE Decimal(Tail(s), acc * Len(DigitSeq) + DigitVal(Head(s)))

\* strconv.Atoi: an optional sign and one digit or more; 0 and an error for
\* anything else.
Atoi(s) ==
    LET signed == s # <<>> /\ Head(s) \in {"-", "+"}
        digits == IF signed THEN Tail(s) ELSE s
    IN  IF digits = <<>> \/ \E n \in 1..Len(digits) : digits[n] \notin Digits
        THEN [err |-> TRUE, n |-> 0]
        ELSE [err |-> FALSE,
              n |-> IF signed /\ Head(s) = "-" THEN 0 - Decimal(digits, 0)
                    ELSE Decimal(digits, 0)]

\* strings.Split(s, "_")[0] and, when there is one, [1]
SplitHead(s) == Slice(s, 0, SkipTo(s, 0, UNDERSCORE))

SplitNext(s) ==
    LET from == SkipTo(s, 0, UNDERSCORE) + 1
    IN  Slice(s, from, SkipTo(s, from, UNDERSCORE))

\* An entry of the directory: a name in parts, and whether it is a directory.
Entry(prefix, stem, ext, isDir) ==
    [prefix |-> prefix, stem |-> stem, ext |-> ext, isDir |-> isDir]

TxtSuffix == <<".", "t", "x", "t">>

\* The entries a directory can have, in the order of os.ReadDir (sorted by
\* file name): -1_d.prompt, 0_a.prompt, 0_dir/, 0_my_doc.prompt, 10_c.prompt,
\* 1_b.prompt, 2_c.prompt, skip.txt.
DirEntries ==
    << Entry(<<"-", "1">>, <<"d">>, PromptSuffix, FALSE),
       Entry(<<"0">>, <<"a">>, PromptSuffix, FALSE),
       Entry(<<"0">>, <<"d", "i", "r">>, Str0, TRUE),
       Entry(<<"0">>, <<"m", "y", UNDERSCORE, "d", "o", "c">>, PromptSuffix, FALSE),
       Entry(<<"1", "0">>, <<"c">>, PromptSuffix, FALSE),
       Entry(<<"1">>, <<"b">>, PromptSuffix, FALSE),
       Entry(<<"2">>, <<"c">>, PromptSuffix, FALSE),
       Entry(Str0, <<"s", "k", "i", "p">>, TxtSuffix, FALSE) >>

\* file.Name()
FileName(e) ==
    IF e.prefix = Str0 THEN e.stem \o e.ext
    ELSE e.prefix \o <<UNDERSCORE>> \o e.stem \o e.ext

\* The entries with the indices in S, in the order of the listing.
RECURSIVE Listing(_)
Listing(S) ==
    IF S = {} THEN <<>>
    ELSE LET n == CHOOSE x \in S : \A y \in S : x <= y
         IN  <<DirEntries[n]>> \o Listing(S \ {n})

Listings ==
    { Listing(S) : S \in { T \in SUBSET (1..Len(DirEntries)) : Cardinality(T) <= MaxFiles } }

Part002Params ==
    [rev |-> "params", onBeforeProcess |-> TRUE, onAfterProcess |-> TRUE]

\* The prefix of a file name, every name taken for a tier: the error of
\* Atoi dropped.
PrefixErrorIgnored(rev, name) ==
    [skip |-> FALSE, n |-> Atoi(SplitHead(name)).n]

\* prefix, err := strconv.Atoi(strings.Split(file.Name(), "_")[0]), and
\* whether the file is passed over (if err != nil { continue }).
Prefix(rev, name) ==
    IF rev = "params" THEN [skip |-> FALSE, n |-> Atoi(SplitHead(name)).n]
    ELSE [skip |-> Atoi(SplitHead(name)).err, n |-> Atoi(SplitHead(name)).n]

\* if len(batches) <= prefix { batches = append(batches, []Prompt{}) }
Expand(batches, prefix) ==
    IF Len(batches) <= prefix THEN Append(batches, <<>>) ELSE batches

\* The name Process passes to the hooks for a prompt of the batch.
\* part_001: the name without its .prompt suffix.  part_002 (ProcessRaw):
\* of that name, the piece between the first and the second underscore, or
\* the whole of it when it has no underscore.
HookName(rev, name) ==
    LET trimmed == TrimSuffix(name, PromptSuffix)
    IN  IF rev = "params" /\ SkipTo(trimmed, 0, UNDERSCORE) < Len(trimmed)
        THEN SplitNext(trimmed)
        ELSE trimmed

\* The entry the loop over the listing is at.
File == doc.files[doc.k]

DirInit ==
    /\ options \in {Part001Hooks, Part002Params}
    /\ \E files \in Listings : doc = [kind |-> "dir", files |-> files, k |-> 1]
    /\ batch = <<>>
    /\ mpc = "listing"
    /\ tier = 1
    /\ calls = <<>>
    /\ ret = NilError
    /\ annotations = NewPromptBuilder(<<>>)
    /\ mutex = Unlocked
    /\ wg = 0
    /\ errChan = <<>>
    /\ wk = <<>>
    /\ sc = NewScan(Str0)

\* if file.IsDir() { continue }
DirSkipDirectory ==
    /\ mpc = "listing" /\ doc.k <= Len(doc.files)
    /\ File.isDir
    /\ doc' = [doc EXCEPT !.k = @ + 1]
    /\ UNCHANGED <<sc, annotations, batchVars, calls>>

\* if err != nil { continue }
DirSkipFile ==
    /\ mpc = "listing" /\ doc.k <= Len(doc.files)
    /\ ~File.isDir
    /\ Prefix(options.rev, FileName(File)).skip
    /\ doc' = [doc EXCEPT !.k = @ + 1]
    /\ UNCHANGED <<sc, annotations, batchVars, calls>>

\* batches[prefix] = append(batches[prefix], Prompt{...}), in range
DirAppend ==
    /\ mpc = "listing" /\ doc.k <= Len(doc.files)
    /\ ~File.isDir
    /\ LET pre == Prefix(options.rev, FileName(File))
           expanded == Expand(batch, pre.n)
       IN  /\ ~pre.skip
           /\ 0 <= pre.n /\ pre.n < Len(expanded)
           /\ batch' = [expanded EXCEPT ![pre.n + 1] =
                           Append(@, [Name |-> FileName(File), Text |-> RefPrompt.Text])]
    /\ doc' = [doc EXCEPT !.k = @ + 1]
    /\ UNCHANGED <<sc, annotations, calls, mutex, options, tier, mpc, wg, errChan, ret, wk>>

\* batches[prefix] with prefix out of range: the run-time panic
DirIndexPanic ==
    /\ mpc = "listing" /\ doc.k <= Len(doc.files)
    /\ ~File.isDir
    /\ LET pre == Prefix(options.rev, FileName(File))
           expanded == Expand(batch, pre.n)
       IN  /\ ~pre.skip
           /\ ~(0 <= pre.n /\ pre.n < Len(expanded))
           /\ batch' = expanded
    /\ mpc' = "panic"
    /\ UNCHANGED <<sc, doc, annotations, calls, mutex, options, tier, wg, errChan, ret, wk>>

\* return pB.ProcessBatch(batches)
DirProcessBatch ==
    /\ mpc = "listing" /\ doc.k > Len(doc.files)
    /\ mpc' = "process"
    /\ UNCHANGED <<sc, doc, annotations, calls, mutex, options, batch, tier, wg, errChan, ret, wk>>

\* A goroutine of the tier: the .prompt suffix removed from the Name of its
\* prompt, and Process called with that name, which calls the hooks.
DirProcess ==
    /\ mpc = "process" /\ tier <= Len(batch)
    /\ \E i \in 1..Len(batch[tier]) :
         /\ \A n \in 1..Len(calls) : <<calls[n].tier, calls[n].index>> # <<tier, i>>
         /\ batch' = [batch EXCEPT ![tier][i].Name = TrimSuffix(@, PromptSuffix)]
         /\ calls' = Append(calls,
                        [ tier |-> tier, index |-> i, file |-> batch[tier][i].Name,
                          name |-> HookName(options.rev, batch[tier][i].Name) ])
    /\ UNCHANGED <<sc, doc, annotations, mutex, options, tier, mpc, wg, errChan, ret, wk>>

\* wg.Wait() of a tier whose goroutines are done
DirNextTier ==
    /\ mpc = "process" /\ tier <= Len(batch)
    /\ \A i \in 1..Len(batch[tier]) :
         \E n \in 1..Len(calls) : <<calls[n].tier, calls[n].index>> = <<tier, i>>
    /\ tier' = tier + 1
    /\ UNCHANGED <<sc, doc, annotations, calls, mutex, options, batch, mpc, wg, errChan, ret, wk>>

DirReturn ==
    /\ mpc = "process" /\ tier > Len(batch)
    /\ mpc' = "returned"
    /\ UNCHANGED <<sc, doc, annotations, calls, mutex, options, batch, tier, wg, errChan, ret, wk>>

DirNext ==
    \/ DirSkipDirectory
    \/ DirSkipFile
    \/ DirAppend
    \/ DirIndexPanic
    \/ DirProcessBatch
    \/ DirProcess
    \/ DirNextTier
    \/ DirReturn

DirSpec == DirInit /\ [][DirNext]_vars

\* ---------------------------------------------------------------- claims on DirSpec
\* The entry of the listing with this file name.
EntryOf(name) ==
    CHOOSE n \in 1..Len(DirEntries) : FileName(DirEntries[n]) = name

\* C25: the name passed to the hooks for a document is the name of its file
\* without the numeric prefix and its underscore and without the .prompt
\* suffix, the rest as it is, further underscores included.
C25_NameStripped ==
    \A n \in 1..Len(calls) :
        calls[n].name = DirEntries[EntryOf(calls[n].file)].stem

\* C25 as part_001 has it: the name passed is the file name without the
\* .prompt suffix, the prefix kept.
C25_SuffixRemoved ==
    options.rev = "hooks" =>
        \A n \in 1..Len(calls) :
            LET e == DirEntries[EntryOf(calls[n].file)]
            IN  calls[n].name = e.prefix \o <<UNDERSCORE>> \o e.stem

\* The files of the listing whose prefix is no integer.
Unnumbered ==
    { n \in 1..Len(doc.files) :
        ~doc.files[n].isDir /\ Atoi(SplitHead(FileName(doc.files[n]))).err }

\* The names of the prompts that are in a tier, without the .prompt suffix.
Grouped ==
    { TrimSuffix(batch[t][i].Name, PromptSuffix) :
        <<t, i>> \in WorkersOf(batch) }

C27_GroupedByPrefix ==
    /\ mpc # "panic"
    /\ \A n \in 1..Len(doc.files) :
          ( /\ n < doc.k
            /\ ~doc.files[n].isDir
            /\ ~Atoi(doc.files[n].prefix).err ) =>
              \A t \in 1..Len(batch) :
                  (\E i \in 1..Len(batch[t]) :
                      TrimSuffix(batch[t][i].Name, PromptSuffix)
                          = TrimSuffix(FileName(doc.files[n]), PromptSuffix))
                  <=> t = Atoi(doc.files[n].prefix).n + 1

\* C27 without the cases the claim adds: when the loop has not panicked, the
\* files are in the tiers of their prefixes.
C27_InRangeGrouped ==
    mpc = "panic" \/ C27_GroupedByPrefix


\* ---------------------------------------------------------------- more claims on ScanSpec
\* A continuation line without its indentation.
Unindented(l) == Slice(l, SkipWhile(l, 0, Tabulation), Len(l))

\* The messages of lines that are label lines `s:`, continuation lines and
\* empty lines: a label line opens a message with nothing in it, a
\* continuation line adds its text to the message that is open.
RECURSIVE MessagesOfLines(_, _)
MessagesOfLines(ls, acc) ==
    IF ls = <<>> THEN acc
    ELSE IF Head(ls) = LabelLine
    THEN MessagesOfLines(Tail(ls), Append(acc, Message(<<"s">>, Str0)))
    ELSE IF Head(ls) \in ContinuationLines /\ acc # <<>>
    THEN MessagesOfLines(Tail(ls),
             [acc EXCEPT ![Len(acc)].Content = @ \o Unindented(Head(ls))])
    ELSE MessagesOfLines(Tail(ls), acc)

C28_NoLabelWitness ==
    /\ Done
    /\ sc.err = "nil"
    /\ doc.kind = "mixed"
    /\ doc.lines = <<Str0, Str0>>
    /\ sc.messages = <<>>

\* C29: a closing bracket in a section body is copied to the content and
\* lowers the depth by one, below zero as well, and the scan goes on
\* without error; a space or a tab of the body adds nothing to the content
\* exactly when the depth is greater than zero.
C29_UnbalancedAccepted ==
    [][ /\ (InBody /\ Cur \in CloseBrackets) =>
              /\ sc'.err = "nil" /\ sc'.mode = "main"
              /\ sc'.stack = sc.stack - 1
              /\ sc'.result = Append(sc.result, Cur)
              /\ sc'.i = sc.i + 1
        /\ (InBody /\ Cur \in Tabulation) =>
              (sc'.result = sc.result <=> sc.stack > 0) ]_vars

C29_Witness ==
    /\ Done
    /\ doc.kind = "body"
    /\ doc.body = <<"}", SP, "b">>
    /\ sc.err = "nil"
    /\ sc.stack < 0
    /\ sc.messages = Content(<<"}", SP, "b">>)

\* ---------------------------------------------------------------- more claims on Spec
\* C30: no step of ProcessBatch changes the name or the text of a prompt of
\* the batch the caller passed.
C30_BatchUnchanged == [][batch' = batch]_vars

\* C30 for the texts alone.
C30_TextUnchanged ==
    [][ \A w \in WorkersOf(batch) :
          batch'[w[1]][w[2]].Text = batch[w[1]][w[2]].Text ]_vars

\* C30 as the code has it: a prompt that was processed has lost the .prompt
\* suffix of its name.
C30_NameTrimmed ==
    /\ mpc = "returned"
    /\ ret = NilError
    /\ batch # <<>> /\ batch[1] # <<>>
    /\ batch[1][1].Name = TrimSuffix(RefPrompt.Name, PromptSuffix)
    /\ batch[1][1].Name # RefPrompt.Name


\* ---------------------------------------------------------------- claims C31..C40 on ScanSpec
\* The cursor is at an `@` that no backslash precedes: in a section body, in
\* a string or in a comment.
AtReference ==
    /\ sc.mode \in {"main", "string", "comment"}
    /\ sc.i < Len(sc.prompt)
    /\ sc.mode = "main" => sc.isTabulated
    /\ Cur = AT

\* The string with an annotation whose identifier has a `-` and a digit and
\* is followed by a full stop.
DashBody ==
    <<"[", QUOTE, SP, AT, "b", "-", "1", ".", BSL, "[", SP, QUOTE, "]", SP, AT, "N", "a", "m", "e", SP, AT>>

Skipped(w) == wk[w].before = "skip"

C35_EveryDocumentOnce ==
    [][ /\ \A w \in DOMAIN wk :
             /\ wk[w].after # "none" => wk'[w].after = wk[w].after
             /\ wk[w].sc.mode = "done" => wk'[w].sc = wk[w].sc
             /\ wk'[w].sc.i >= wk[w].sc.i
        /\ (/\ mpc' = "returned"
            /\ \A w \in DOMAIN wk : wk'[w].err = NilError /\ wk'[w].before # "skip") =>
              \A w \in DOMAIN wk :
                 /\ wk'[w].pc = "done"
                 /\ wk'[w].sc.mode = "done"
                 /\ wk'[w].sc.err = "nil"
                 /\ wk'[w].messages = wk'[w].sc.messages
                 /\ (options.rev = "callback" \/ options.onAfterProcess) =>
                        wk'[w].after = "ok" ]_vars

\* Two tiers, three documents, each compiled and handed to the callback,
\* which set the annotation from two of them.
C35_Witness ==
    /\ mpc = "returned"
    /\ ret = NilError
    /\ options.rev = "callback"
    /\ Len(batch) = 2
    /\ Count(batch) = 3
    /\ \A w \in DOMAIN wk :
          /\ wk[w].pc = "done"
          /\ wk[w].after = "ok"
          /\ wk[w].messages # <<>>
    /\ \E w \in DOMAIN wk : wk[w].act = "set"

\* ProcessBatch under a scheduler that does not stop while some goroutine
\* can take a step.
MaxFairWorkers == 2    \* prompts of a batch whose every behaviour is followed to its end

FairInit == BatchInit /\ Count(batch) <= MaxFairWorkers

FairSpec == FairInit /\ [][Next]_vars /\ WF_vars(Next)

\* C36: ProcessBatch always returns when every compilation and callback
\* returns: a worker sends at most one error, the channel never holds more
\* errors than the tier has workers, a worker that has an error to send finds
\* room in the channel, and the batch ends by returning (a panic or a fatal
\* error of the runtime, where a call does not return, apart).
C36_AlwaysReturns ==
    /\ [](/\ \A k1, k2 \in 1..Len(errChan) :
               k1 # k2 => errChan[k1].from # errChan[k2].from
          /\ tier <= Len(batch) => Len(errChan) <= Len(batch[tier])
          /\ \A w \in DOMAIN wk :
               (wk[w].pc = "return" /\ wk[w].err # NilError) =>
                  Len(errChan) < Len(batch[w[1]]))
    /\ <>(mpc = "returned" \/ Crashed)

\* Both workers of a tier failed, both errors are in the channel and
\* ProcessBatch has returned the first.
C36_Witness ==
    /\ mpc = "returned"
    /\ ret # NilError
    /\ Len(errChan) = 2
    /\ Len(batch[tier]) = 2
    /\ \A w \in DOMAIN wk : TierOf(w) = tier => wk[w].pc = "done" /\ wk[w].sent > 0

\* callback(prompts[i].Name, messages, i == len(prompts)-1): the isLast a
\* worker hands to its callback.
IsLast(w) == w[2] = Len(batch[w[1]])

SameTier(w1, w2) == w1 # w2 /\ TierOf(w1) = TierOf(w2)

CallbackReturned(w) == wk[w].pc \in {"return", "done"}

\* C37: in the revision whose callback takes isLast, the callback that
\* receives isLast = true starts only when every other callback of its tier
\* has returned.
C37_LastCallbackLast ==
    [][ \A w \in DOMAIN wk :
          (/\ options.rev = "callback"
           /\ IsLast(w)
           /\ wk[w].pc = "after"
           /\ wk'[w].pc # "after") =>
             \A w2 \in DOMAIN wk : SameTier(w, w2) => CallbackReturned(w2) ]_vars

\* Every document of the tier compiles and every callback returns nil, and
\* the callback with isLast = true was the first to run: the other worker of
\* the tier has not yet called its own.
C37_LastStartedFirst ==
    /\ options.rev = "callback"
    /\ \E w, w2 \in DOMAIN wk :
          /\ SameTier(w, w2)
          /\ IsLast(w)
          /\ wk[w].pc = "done"
          /\ wk[w].after = "ok"
          /\ wk[w2].pc = "after"
          /\ wk[w2].sc.err = "nil"

\* The part of C37 that holds: of the callbacks of a tier whose documents all
\* compiled, exactly one received isLast = true.
C37_OneIsLast ==
    (mpc = "returned" /\ ret = NilError /\ options.rev = "callback") =>
        \A t \in 1..Len(batch) :
            Len(batch[t]) > 0 =>
                Cardinality({ w \in DOMAIN wk :
                                TierOf(w) = t /\ IsLast(w) /\ wk[w].after = "ok" }) = 1

\* ---------------------------------------------------------------- FromString
\* The minifier of package prompt, which has no labels, no escapes and no
\* annotations: one iteration of its loop is one step.
MaxTokens == 5     \* tokens of a text handed to FromString

MinifyTokens ==
    { <<"{">>, <<"}">>, <<QUOTE, "a", QUOTE>>, <<SP>>, <<"x">>, <<QUOTE>> }

\* Texts with a comment, with square brackets, with newlines and tabs.
MinifyFixtures ==
    { <<"{", SP, SLASH, SLASH, "c", NL, "}", SP, "x">>,
      <<"{", SLASH, SLASH, "c">>,
      <<SP, "x", SP, "[", NL, TAB, "x", "]", SP, NL>> }

MinifyTexts ==
    { Concat(ts) : ts \in SeqsUpTo(MinifyTokens, MaxTokens) } \cup MinifyFixtures

\* The add-on, standing for the sentence of AddOnJSONOutput.
AddOnJSONOutput == <<"J">>

AddOnLists == { <<>>, <<AddOnJSONOutput>> }

\* prompt = strings.TrimSpace(prompt); bracketCount := 0; i := 0
NewMinify(text) ==
    [ prompt |-> TrimSpace(text),
      i |-> 0,
      result |-> Str0,
      bracketCount |-> 0,
      mode |-> "main",
      err |-> "nil" ]

\* A read of prompt[i] with i = len(prompt).
MinifyPanic(s) == [s EXCEPT !.mode = "done", !.err = "panic"]

\* next(true), up to the cursor j.
MinifyWrite(s, j) ==
    [s EXCEPT !.result = @ \o Slice(s.prompt, s.i, j), !.i = j]

\* switch prompt[i] { case '{', '[': bracketCount++; case '}', ']': bracketCount-- }
CountBrackets(s) ==
    [s EXCEPT !.bracketCount =
        CASE At(s.prompt, s.i) \in OpenBrackets -> @ + 1
          [] At(s.prompt, s.i) \in CloseBrackets -> @ - 1
          [] OTHER -> @]

\* Strings: the quote, every character up to the next quote, that quote.
MinifyString(s) ==
    IF At(s.prompt, s.i) # QUOTE THEN s
    ELSE LET j == SkipTo(s.prompt, s.i + 1, QUOTE)
         IN  IF j >= Len(s.prompt)
             THEN MinifyPanic(MinifyWrite(s, Len(s.prompt)))
             ELSE MinifyWrite(s, j + 1)

\* Comments: the two slashes, every character up to the newline, the newline.
MinifyComment(s) ==
    IF ~CommentAt(s.prompt, s.i) THEN s
    ELSE LET j == SkipTo(s.prompt, s.i + 2, NL)
         IN  IF j >= Len(s.prompt)
             THEN MinifyPanic(MinifyWrite(s, Len(s.prompt)))
             ELSE MinifyWrite(s, j + 1)

\* Spaces inside brackets are stepped over; any other character is written.
MinifySpaces(s) ==
    IF At(s.prompt, s.i) \in Spaces
    THEN [s EXCEPT !.i = @ + 1]
    ELSE MinifyWrite(s, s.i + 1)

\* One iteration of the loop of FromString. The three tests under
\* `if bracketCount > 0` follow each other with no `continue` between them,
\* each reading prompt[i] where the one before left the cursor, and the
\* character the last one leaves is written without the brackets switch.
FromStringStep(s) ==
    LET a == CountBrackets(s)
    IN  IF a.bracketCount <= 0 THEN MinifyWrite(a, a.i + 1)
        ELSE LET b == MinifyString(a)
             IN  IF b.err # "nil" \/ b.i >= Len(b.prompt) THEN MinifyPanic(b)
                 ELSE LET c == MinifyComment(b)
                      IN  IF c.err # "nil" \/ c.i >= Len(c.prompt) THEN MinifyPanic(c)
                          ELSE MinifySpaces(c)

\* for _, addon := range addons { "\n" + addon }; return result.String()
MinifyAddOns(s, addons) ==
    [s EXCEPT !.result = @ \o Concat([k \in 1..Len(addons) |-> <<NL>> \o addons[k]]),
              !.mode = "done"]

MinifyInit ==
    /\ doc \in [kind : {"string"}, text : MinifyTexts, addons : AddOnLists]
    /\ sc = NewMinify(doc.text)
    /\ annotations = NewPromptBuilder(<<>>)
    /\ mutex = Unlocked
    /\ options = Part001NoHooks
    /\ batch = <<>>
    /\ tier = 1
    /\ mpc = "none"
    /\ wg = 0
    /\ errChan = <<>>
    /\ ret = NilError
    /\ wk = <<>>
    /\ calls = <<>>

MinifyRunning == sc.mode = "main" /\ sc.i < Len(sc.prompt)

\* An iteration that writes what it steps over.
MinifyKeep ==
    /\ MinifyRunning
    /\ FromStringStep(sc).err = "nil"
    /\ FromStringStep(sc).result # sc.result
    /\ sc' = FromStringStep(sc)
    /\ UNCHANGED <<annotations, doc, batchVars, calls>>

\* An iteration that steps over a space, a newline or a tab.
MinifyDrop ==
    /\ MinifyRunning
    /\ FromStringStep(sc).err = "nil"
    /\ FromStringStep(sc).result = sc.result
    /\ sc' = FromStringStep(sc)
    /\ UNCHANGED <<annotations, doc, batchVars, calls>>

\* An iteration that reads prompt[len(prompt)]: index out of range.
MinifyIndexPanic ==
    /\ MinifyRunning
    /\ FromStringStep(sc).err = "panic"
    /\ sc' = FromStringStep(sc)
    /\ UNCHANGED <<annotations, doc, batchVars, calls>>

MinifyReturn ==
    /\ sc.mode = "main" /\ sc.i >= Len(sc.prompt)
    /\ sc' = MinifyAddOns(sc, doc.addons)
    /\ UNCHANGED <<annotations, doc, batchVars, calls>>

MinifyNext ==
    \/ MinifyKeep
    \/ MinifyDrop
    \/ MinifyIndexPanic
    \/ MinifyReturn

MinifySpec == MinifyInit /\ [][MinifyNext]_vars

\* ---- claims on MinifySpec
\* The depth of bracket-delimited regions before prompt[i]: brackets are
\* counted outside double-quoted strings, and a string is one inside a region.
RECURSIVE RegionDepth(_, _, _, _, _)
RegionDepth(p, i, k, depth, inString) ==
    IF k >= i THEN depth
    ELSE IF inString THEN RegionDepth(p, i, k + 1, depth, At(p, k) # QUOTE)
    ELSE IF depth > 0 /\ At(p, k) = QUOTE THEN RegionDepth(p, i, k + 1, depth, TRUE)
    ELSE IF At(p, k) \in OpenBrackets THEN RegionDepth(p, i, k + 1, depth + 1, FALSE)
    ELSE IF At(p, k) \in CloseBrackets THEN RegionDepth(p, i, k + 1, depth - 1, FALSE)
    ELSE RegionDepth(p, i, k + 1, depth, FALSE)

OutsideRegions(p, i) == RegionDepth(p, i, 0, 0, FALSE) = 0

HasString(p) == \E k \in 1..Len(p) : p[k] = QUOTE

\* C33: FromString removes whitespace only inside bracket-delimited regions:
\* an iteration whose cursor is on a whitespace character of the trimmed
\* input that lies outside every region writes that character, also after a
\* closed region that contained a string.
C33_OutsideWhitespaceKept ==
    [][ (MinifyRunning /\ At(sc.prompt, sc.i) \in Spaces /\ OutsideRegions(sc.prompt, sc.i)) =>
            /\ sc'.result = Append(sc.result, At(sc.prompt, sc.i))
            /\ sc'.i = sc.i + 1 ]_vars

\* The same for texts with no double quote and no comment: it holds.
C33_KeptWithoutStrings ==
    [][ (/\ MinifyRunning
         /\ At(sc.prompt, sc.i) \in Spaces
         /\ OutsideRegions(sc.prompt, sc.i)
         /\ ~HasString(sc.prompt)
         /\ doc.text \notin MinifyFixtures) =>
            /\ sc'.result = Append(sc.result, At(sc.prompt, sc.i))
            /\ sc'.i = sc.i + 1 ]_vars

\* `{"a"} x` is returned as `{"a"}x`.
C33_SpaceLost ==
    /\ sc.mode = "done"
    /\ sc.err = "nil"
    /\ doc.addons = <<>>
    /\ sc.prompt = <<"{", QUOTE, "a", QUOTE, "}", SP, "x">>
    /\ sc.result = <<"{", QUOTE, "a", QUOTE, "}", "x">>

\* FromString on `{"x`: the string loop reads prompt[len(prompt)].
C34_MinifyPanics ==
    /\ sc.mode = "done"
    /\ sc.err = "panic"
    /\ sc.prompt = <<"{", QUOTE, "x">>

\* ---- claims C34, C38, C39, C40 on ScanSpec
\* C34: for every text the scan ends by returning messages or an error and
\* never reads prompt[i] with i at or beyond the end of the text, whatever
\* the text leaves open when it ends: a string in a literal, an escape
\* before the last newline inside a string or a comment, whitespace after a
\* bracket that is not closed.
C34_NeverReadsPastEnd == sc.err # "panic"

PanickedOn(body) ==
    /\ Done
    /\ sc.err = "panic"
    /\ doc.kind = "body"
    /\ doc.body = body

\* `{"b`: the string loop runs past the final newline.
C34_UnterminatedString == PanickedOn(<<"{", QUOTE, "b">>)

\* `{"\`: the escape steps over the final newline inside the string.
C34_EscapeBeforeEnd == PanickedOn(<<"{", QUOTE, BSL>>)

\* `{ `: the whitespace loop steps over the final newline.
C34_TrailingWhitespace == PanickedOn(<<"{", SP>>)

\* The scan of a text that panics nowhere ends with messages or an error.
C34_EndsOtherwise ==
    Done => \/ sc.err = "panic"
            \/ sc.err = "nil"
            \/ sc.messages = <<>>

\* The text of a body after its first line.
LaterSection(body) == Slice(body, SkipTo(body, 0, NL) + 1, Len(body))

\* C38: the content of a later section depends only on that section: the
\* second message of a document of two sections is the message the second
\* section compiles to alone, whatever brackets the first section left open
\* or closed.
C38_SectionsIndependent ==
    (Done /\ sc.err = "nil" /\ doc.kind = "body" /\ Len(sc.messages) = 2) =>
        <<sc.messages[2]>> =
            processPrompt(NewScan(LaterSection(doc.body)), annotations).messages

\* `{` in the first section: the second section `b b` compiles to `bb`.
C38_LaterSectionMinified ==
    /\ Done
    /\ doc.kind = "body"
    /\ doc.body = OpenThenSection
    /\ sc.messages = <<Message(<<"s">>, <<"{">>), Message(<<"u">>, <<"b", "b">>)>>

\* `}` in the first section: the literal `{ b }` of the second keeps its spaces.
C38_LaterLiteralKept ==
    /\ Done
    /\ doc.kind = "body"
    /\ doc.body = CloseThenSection
    /\ sc.messages =
         <<Message(<<"s">>, <<"}">>), Message(<<"u">>, <<"{", SP, "b", SP, "}">>)>>

\* The cursor is on the first character of a line with no indentation,
\* outside strings and comments, in a text with no backslash.
NonIndentedLineStart ==
    /\ sc.mode = "main"
    /\ sc.i > 0
    /\ sc.i < Len(sc.prompt)
    /\ At(sc.prompt, sc.i - 1) = NL
    /\ At(sc.prompt, sc.i) \notin {NL, TAB, SP}
    /\ \A k \in 1..Len(sc.prompt) : sc.prompt[k] # BSL

\* The step ends the section and takes the line for a label line: a label is
\* set and the content starts empty, or the scan fails on the line.
TakenAsLabelLine ==
    \/ sc'.err # "nil"
    \/ /\ sc'.label # Str0
       /\ sc'.result = Str0
       /\ sc'.i > sc.i

\* C39: a line with no indentation, outside any double-quoted string, always
\* ends the current section and is parsed as a label line, whatever the
\* bracket depth and whatever whitespace ends the line before it.
C39_NonIndentedEndsSection ==
    [][ NonIndentedLineStart => TakenAsLabelLine ]_vars

\* The same outside structured literals: it holds.
C39_EndsSectionAtDepthZero ==
    [][ (NonIndentedLineStart /\ sc.stack <= 0) => TakenAsLabelLine ]_vars

\* `{ ` ends a line and `u:` starts the next: no section u, the line is
\* copied into the content of s.
C39_LineAbsorbed ==
    /\ Done
    /\ sc.err = "nil"
    /\ doc.kind = "body"
    /\ doc.body = TrailingSpaceBody
    /\ sc.messages = Content(<<"{", "u", COLON, "b">>)

\* One character that stands for the value of id and means nothing to the scan.
RECURSIVE Mark(_)
Mark(id) == IF id = <<>> THEN "@" ELSE Mark(SubSeq(id, 1, Len(id) - 1)) \o id[Len(id)]

Marks(store) == [id \in DOMAIN store |-> <<Mark(id)>>]

IdOfMark(store, c) == CHOOSE id \in DOMAIN store : Mark(id) = c

\* The content, each mark replaced by the value of its identifier.
Resolve(store, content) ==
    Concat([k \in 1..Len(content) |->
               IF \E id \in DOMAIN store : Mark(id) = content[k]
               THEN store[IdOfMark(store, content[k])]
               ELSE <<content[k]>>])

\* C40: a resolved value is inserted verbatim and is not scanned again: the
\* messages and the error of a scan are those of the scan of the same text
\* against a store of opaque marks, each mark then replaced by the value it
\* stands for. Brackets, whitespace, quotes and `@identifier` in a value
\* change nothing but the place where the value is inserted.
C40_ValueVerbatim ==
    Done =>
        LET m == processPrompt(NewScan(TextOf(doc)), Marks(annotations))
        IN  /\ sc.err = m.err
            /\ sc.messages =
                 [k \in 1..Len(m.messages) |->
                     Message(m.messages[k].Role, Resolve(annotations, m.messages[k].Content))]

\* `@b ` with b set to `{ "@b`: the value is copied as it is and the space
\* after the reference is kept.
C40_Witness ==
    /\ Done
    /\ sc.err = "nil"
    /\ doc.kind = "body"
    /\ doc.body = <<AT, "b", SP>>
    /\ <<"b">> \in DOMAIN annotations
    /\ sc.messages = Content(<<"{", SP, QUOTE, AT, "b", SP>>)

\* `{@b`: inside a literal the space of the value is kept.
C40_InLiteralWitness ==
    /\ Done
    /\ sc.err = "nil"
    /\ doc.kind = "body"
    /\ doc.body = <<"{", AT, "b">>
    /\ <<"b">> \in DOMAIN annotations
    /\ sc.messages = Content(<<"{", "{", SP, QUOTE, AT, "b">>)

====
